---------------------------- MODULE Spec2Model ----------------------------
(***************************************************************************)
(* Model of the FMP scraper pipeline (scripts/fmp-scraper.ts) and of the   *)
(* triggered scrape route (app/api/scrape/route.ts).                       *)
(*                                                                         *)
(* Four specifications share the module:                                   *)
(*   SpecFetch  the rate-limited fetch client and the batch processor      *)
(*              (fetchWithRetry, processSymbolsBatch) over explicit time;  *)
(*   SpecRun    the six batch fetches of a full run, one after another,    *)
(*              over the same clock and cooldown;                          *)
(*   Spec       one invocation of the scraper (CLI main, full or partial,  *)
(*              or the scrape route) at the level of the data it joins.    *)
(*   SpecPure   one call of a function of the scraper (toUSD,              *)
(*              fetchGlobalStocks, the ranking steps, the choice of the    *)
(*              forward estimate) on inputs drawn from bounded sets.       *)
(***************************************************************************)
EXTENDS Integers, Sequences, FiniteSets, TLC

VARIABLES
    \* ---- fetch client / batch processor (SpecFetch) ----
    now,                      \* Date.now(), in ms
    rateLimitCooldownUntil,   \* process-wide cooldown timestamp
    concurrency,              \* the configured CONCURRENT_REQUESTS
    symbols,                  \* input list of processSymbolsBatch
    i,                        \* loop index of processSymbolsBatch (0-based)
    bpc,                      \* position of processSymbolsBatch
    tasks,                    \* one fetchWithRetry call per list position
    results,                  \* the result Map of processSymbolsBatch
    delayWake,                \* wake-up time of the inter-batch sleep
    faults,                   \* number of failed requests so far (bounded)
    callNo,                   \* which batch fetch of a full run this is, from 1
                              \* (0: a call of processSymbolsBatch on its own)
    \* ---- one invocation of the scraper (Spec) ----
    entry,                    \* "main" (CLI) or "GET" (scrape route)
    only,                     \* args.only: an update category, or "none"
    pc,                       \* position of the invocation
    outcome,                  \* "running", exit code or HTTP status
    request,                  \* the token of the request and SCRAPER_SECRET
    response,                 \* the keys of the JSON body the route answered
    file,                     \* data/companies.json
    blob,                     \* the companies.json blob
    screenerPages,            \* response.data of the company-screener requests
    allSymbols,               \* the symbol list the stages iterate over
    validSymbols,             \* the symbols that passed the quote filter
    quotes,                   \* result Maps of the batch fetches
    profiles,
    fxRates,
    incomeStatements,
    ratios,
    growth,
    estimates,
    existingData,             \* the snapshot runPartialUpdate loaded
    companyMap,               \* its working Map, in insertion order
    result,                   \* { companies, lastUpdated } the run returned
    \* ---- one call of a pure function (SpecPure) ----
    fn,                       \* the function called
    args,                     \* its arguments
    out                       \* <<>> before the call, <<value>> after it

fetchVars == <<now, rateLimitCooldownUntil, concurrency, symbols, i, bpc,
               tasks, results, delayWake, faults, callNo>>

runVars == <<entry, only, pc, outcome, request, response, file, blob>>

stageVars == <<screenerPages, allSymbols, validSymbols, quotes, profiles, fxRates,
               incomeStatements, ratios, growth, estimates>>

updateVars == <<existingData, companyMap>>

dataVars == <<runVars, stageVars, updateVars, result>>

pureVars == <<fn, args, out>>

vars == <<fetchVars, dataVars, pureVars>>

-----------------------------------------------------------------------------
(* Bounds of the model *)

MaxSymbols == 3
MaxConcurrency == 3
MaxFaults == 5
MaxScreener == 2
MaxAmount == 3
MaxPages == 3
MaxRecords == 3
MaxEstimates == 3
MaxRunSymbols == 2
MaxRunFaults == 2

\* the page size of the company-screener requests (limit = 10000), scaled
PageLimit == 2

-----------------------------------------------------------------------------
(* Program constants *)

CONCURRENT_REQUESTS == 1
REQUEST_DELAY_MS == 100
maxRetries == 5
BACKOFF_BASE_MS == 1000
BACKOFF_CAP_MS == 30000

-----------------------------------------------------------------------------
(* Helpers *)

Min(a, b) == IF a < b THEN a ELSE b

RECURSIVE Pow2(_)
Pow2(n) == IF n = 0 THEN 1 ELSE 2 * Pow2(n - 1)

SetMin(S) == CHOOSE x \in S : \A y \in S : x <= y

\* JS null for payloads of the fetch client
NullData == "null"

-----------------------------------------------------------------------------
(* The environment of the fetch client: what one HTTP request can end in   *)

\* error.response?.status (0 when there is no response) and error.code
HTTP404 == [status |-> 404, code |-> "ERR_BAD_REQUEST"]
HTTP429 == [status |-> 429, code |-> "ERR_BAD_REQUEST"]
HTTP500 == [status |-> 500, code |-> "ERR_BAD_RESPONSE"]
NetReset == [status |-> 0, code |-> "ECONNRESET"]
NetOther == [status |-> 0, code |-> "ERR_NETWORK"]

Errors == {HTTP404, HTTP429, HTTP500, NetReset, NetOther}

\* what the current attempt of a fetchWithRetry call saw: nothing yet, a
\* resolved promise, or the error it was rejected with
NoResponse == [status |-> 0, code |-> "none"]
Resolved == [status |-> 200, code |-> "ok"]

\* fetchFn resolves with the first element of the array, or with null when
\* the array is empty
Payloads == {"payload", NullData}

\* time between issuing a request and its response
Latencies == {100, 600}

TransientCodes ==
    {"ECONNABORTED", "ECONNRESET", "ECONNREFUSED", "ETIMEDOUT", "EPIPE", "EAI_AGAIN"}

\* variant: every HTTP error status counts as transient
isTransientError_Any4xx(error) ==
    IF error.status >= 400 THEN TRUE
    ELSE error.code \in TransientCodes

\* status 429, status >= 500, or a network error code of the list
isTransientError(error) ==
    IF error.status = 429 THEN TRUE
    ELSE IF error.status # 0 /\ error.status >= 500 THEN TRUE
    ELSE error.code \in TransientCodes

\* variant: the backoff is counted in hundredths of the base
backoffMs_Short(attempt) ==
    Min((BACKOFF_BASE_MS \div 100) * Pow2(attempt), BACKOFF_CAP_MS)

\* Math.min(1000 * Math.pow(2, attempt), 30000)
backoffMs(attempt) == Min(BACKOFF_BASE_MS * Pow2(attempt), BACKOFF_CAP_MS)

\* variant: an error that is not transient is rethrown
CatchDecision_Rethrow(error, attempt) ==
    IF isTransientError(error) /\ attempt < maxRetries - 1 THEN "retry"
    ELSE IF isTransientError(error) THEN "skip" ELSE "throw"

\* variant: the call gives up after two failed requests
CatchDecision_GiveUpEarly(error, attempt) ==
    IF isTransientError(error) /\ attempt < maxRetries - 3 THEN "retry" ELSE "skip"

\* variant: the last failed request is followed by a backoff sleep
CatchDecision_SleepAfterLast(error, attempt) ==
    IF isTransientError(error) /\ attempt < maxRetries THEN "retry" ELSE "skip"

\* the catch block of fetchWithRetry: "retry" (sleep and continue) or "skip"
\* (return { symbol, data: null }); nothing is rethrown
CatchDecision(error, attempt) ==
    IF isTransientError(error) /\ attempt < maxRetries - 1 THEN "retry" ELSE "skip"

\* variant: the cooldown lasts twice the backoff of the call that sets it
CooldownAfter_TwiceBackoff(error, attempt, at) ==
    IF error.status = 429 THEN at + 2 * backoffMs(attempt)
    ELSE rateLimitCooldownUntil

\* variant: every retried error sets the cooldown
CooldownAfter_AnyRetry(error, attempt, at) == at + backoffMs(attempt)

\* the global cooldown after a caught error that will be retried, at time at
CooldownAfter(error, attempt, at) ==
    IF error.status = 429 THEN at + backoffMs(attempt) ELSE rateLimitCooldownUntil

-----------------------------------------------------------------------------
(* fetchWithRetry: one call per position of the input list.  A call is     *)
(* suspended in its cooldown sleep, in its request or in its backoff sleep *)
(* until the time in wake; the step that resumes it runs at that time.     *)

TaskInit ==
    [pc |-> "pending", attempt |-> 0, wake |-> 0, requests |-> 0,
     backoffs |-> 0, early |-> FALSE, last |-> NoResponse,
     data |-> NullData]

\* const data = await fetchFn(symbol): the request leaves at time at
IssueRequest(t, at, lat) ==
    [t EXCEPT !.pc = "inflight", !.wake = at + lat, !.requests = @ + 1,
              !.early = (at < rateLimitCooldownUntil)]

\* top of the loop body: read the clock, sleep on an active cooldown, else
\* issue the request
BeginAttempt(t, at, lat) ==
    IF rateLimitCooldownUntil > at
    THEN [t EXCEPT !.pc = "cooldown", !.wake = at + (rateLimitCooldownUntil - at)]
    ELSE IssueRequest(t, at, lat)

\* variant: a batch takes one symbol more than the factor
BatchOf_OneMore(k) == {p \in 1..Len(symbols) : p > k /\ p <= k + concurrency + 1}

\* symbols.slice(i, i + CONCURRENT_REQUESTS), as list positions
BatchOf(k) == {p \in 1..Len(symbols) : p > k /\ p <= k + concurrency}

\* batch.map(symbol => fetchWithRetry(symbol, fetchFn)): every call of the
\* batch runs up to its first await
StartBatchAt(k, at) ==
    \E lat \in [BatchOf(k) -> Latencies] :
        tasks' = [p \in DOMAIN tasks |->
                    IF p \in BatchOf(k) THEN BeginAttempt(tasks[p], at, lat[p])
                    ELSE tasks[p]]

\* the timers and responses the event loop is waiting for
PendingWakes ==
    {tasks[p].wake : p \in {q \in DOMAIN tasks :
                              tasks[q].pc \in {"cooldown", "inflight", "backoff"}}}
    \cup (IF bpc = "delay" THEN {delayWake} ELSE {})

\* the event loop is idle until the earliest of them is due
Due(w) == w = SetMin(PendingWakes)

StartBatch ==
    /\ bpc = "start"
    /\ IF i < Len(symbols)
       THEN /\ StartBatchAt(i, now)
            /\ bpc' = "awaiting"
       ELSE /\ bpc' = "returned"
            /\ UNCHANGED tasks
    /\ UNCHANGED <<now, rateLimitCooldownUntil, concurrency, symbols, i,
                   results, delayWake, faults>>
    /\ UNCHANGED <<callNo, dataVars, pureVars>>

\* the cooldown sleep is over: the request is issued without a second look
\* at the cooldown
CooldownWake(p) ==
    /\ tasks[p].pc = "cooldown"
    /\ Due(tasks[p].wake)
    /\ now' = tasks[p].wake
    /\ \E lat \in Latencies :
          tasks' = [tasks EXCEPT ![p] = IssueRequest(@, now', lat)]
    /\ UNCHANGED <<rateLimitCooldownUntil, concurrency, symbols, i, bpc,
                   results, delayWake, faults>>
    /\ UNCHANGED <<callNo, dataVars, pureVars>>

\* fetchFn resolved: return { symbol, data }
ResponseData(p) ==
    /\ tasks[p].pc = "inflight"
    /\ Due(tasks[p].wake)
    /\ now' = tasks[p].wake
    /\ \E d \in Payloads :
          tasks' = [tasks EXCEPT ![p].pc = "returned", ![p].data = d,
                                 ![p].wake = 0, ![p].last = Resolved]
    /\ UNCHANGED <<rateLimitCooldownUntil, concurrency, symbols, i, bpc,
                   results, delayWake, faults>>
    /\ UNCHANGED <<callNo, dataVars, pureVars>>

\* the failed requests the model lets one call, or the six calls of a full
\* run together, meet
FaultLimit == IF callNo = 0 THEN MaxFaults ELSE MaxRunFaults

\* fetchFn rejected: the catch block
ResponseError(p) ==
    /\ tasks[p].pc = "inflight"
    /\ Due(tasks[p].wake)
    /\ now' = tasks[p].wake
    /\ faults < FaultLimit
    /\ faults' = faults + 1
    /\ \E error \in Errors :
          LET a == tasks[p].attempt
              logged == [tasks[p] EXCEPT !.last = error]
          IN  CASE CatchDecision(error, a) = "retry" ->
                     /\ rateLimitCooldownUntil' = CooldownAfter(error, a, now')
                     /\ tasks' = [tasks EXCEPT ![p] =
                                    [logged EXCEPT !.pc = "backoff",
                                                   !.wake = now' + backoffMs(a),
                                                   !.backoffs = @ + 1]]
                [] CatchDecision(error, a) = "skip" ->
                     /\ tasks' = [tasks EXCEPT ![p] =
                                    [logged EXCEPT !.pc = "returned", !.wake = 0,
                                                   !.data = NullData]]
                     /\ UNCHANGED rateLimitCooldownUntil
                [] OTHER ->
                     /\ tasks' = [tasks EXCEPT ![p] = [logged EXCEPT !.pc = "thrown", !.wake = 0]]
                     /\ UNCHANGED rateLimitCooldownUntil
    /\ UNCHANGED <<concurrency, symbols, i, bpc, results, delayWake>>
    /\ UNCHANGED <<callNo, dataVars, pureVars>>

\* the backoff sleep is over: continue with attempt + 1
BackoffWake(p) ==
    /\ tasks[p].pc = "backoff"
    /\ Due(tasks[p].wake)
    /\ now' = tasks[p].wake
    /\ \E lat \in Latencies :
          tasks' = [tasks EXCEPT ![p] =
                      IF tasks[p].attempt + 1 < maxRetries
                      THEN BeginAttempt([@ EXCEPT !.attempt = @ + 1,
                                                   !.last = NoResponse], now', lat)
                      ELSE [@ EXCEPT !.attempt = @ + 1, !.pc = "returned",
                                     !.wake = 0, !.data = NullData]]
    /\ UNCHANGED <<rateLimitCooldownUntil, concurrency, symbols, i, bpc,
                   results, delayWake, faults>>
    /\ UNCHANGED <<callNo, dataVars, pureVars>>

-----------------------------------------------------------------------------
(* processSymbolsBatch *)

\* for (const result of batchResults) if (result.data) results.set(...)
RECURSIVE CollectInto(_, _, _)
CollectInto(res, p, last) ==
    IF p > last THEN res
    ELSE CollectInto(IF tasks[p].data # NullData
                     THEN (symbols[p] :> tasks[p].data) @@ res
                     ELSE res,
                     p + 1, last)

\* a settled call whose result has been read: only { symbol, data } is left
Collected(t) == [TaskInit EXCEPT !.pc = "collected", !.data = t.data]

\* Promise.all settled: on a rejection processSymbolsBatch throws; else
\* collect, then sleep the base delay or return
Collect ==
    /\ bpc = "awaiting"
    /\ \/ \E p \in BatchOf(i) : tasks[p].pc = "thrown"
       \/ \A p \in BatchOf(i) : tasks[p].pc = "returned"
    /\ IF \E p \in BatchOf(i) : tasks[p].pc = "thrown"
       THEN /\ bpc' = "aborted"
            /\ UNCHANGED <<results, delayWake, tasks>>
       ELSE /\ results' = CollectInto(results, i + 1, Min(i + concurrency, Len(symbols)))
            /\ tasks' = [p \in DOMAIN tasks |->
                           IF p \in BatchOf(i) THEN Collected(tasks[p]) ELSE tasks[p]]
            /\ IF i + concurrency < Len(symbols)
               THEN /\ bpc' = "delay"
                    /\ delayWake' = now + REQUEST_DELAY_MS
               ELSE /\ bpc' = "returned"
                    /\ UNCHANGED delayWake
    /\ UNCHANGED <<now, rateLimitCooldownUntil, concurrency, symbols, i, faults>>
    /\ UNCHANGED <<callNo, dataVars, pureVars>>

\* the base delay is over: i += CONCURRENT_REQUESTS and the next batch starts
DelayWake ==
    /\ bpc = "delay"
    /\ Due(delayWake)
    /\ now' = delayWake
    /\ i' = i + concurrency
    /\ StartBatchAt(i + concurrency, now')
    /\ bpc' = "awaiting"
    /\ UNCHANGED <<rateLimitCooldownUntil, concurrency, symbols, results,
                   delayWake, faults>>
    /\ UNCHANGED <<callNo, dataVars, pureVars>>

-----------------------------------------------------------------------------
(* Values of the data level *)

\* null or undefined in a numeric field
Null == 0 - 999999999

\* !x of a number, null or undefined
Falsy(x) == x = Null \/ x = 0

\* x || 0
OrZero(x) == IF Falsy(x) THEN 0 ELSE x

\* x ?? y
Nullish(x, y) == IF x = Null THEN y ELSE x

\* map.get(key) is defined
Has(map, key) == key \in DOMAIN map

Range(seq) == {seq[k] : k \in DOMAIN seq}

RECURSIVE Pow(_, _)
Pow(b, k) == IF k = 0 THEN 1 ELSE b * Pow(b, k - 1)

\* Math.pow(x, 1 / k), on the perfect k-th powers the payloads below use
Root(x, k) == CHOOSE r \in 0..x : Pow(r, k) = x

\* new Date().toISOString() of the run that wrote the loaded snapshot, and
\* of this run
SeedStamp == "2026-01-01T00:00:00.000Z"
RunStamp == "2026-01-02T00:00:00.000Z"

-----------------------------------------------------------------------------
(* The environment of a run: what the endpoints answer for one symbol.     *)
(* A result Map of processSymbolsBatch holds a payload for a subset of the *)
(* symbols it was given.                                                   *)

SUPPLEMENTAL_SYMBOLS == <<"TCEHY">>

\* the symbols the company-screener can return
ScreenerSymbols == {"AAA", "TCEHY"}

MARKET_CAP_FLOOR == 1000000000
NEW_SYMBOL_MARKET_CAP_FLOOR == 100000000

FXRates == [c \in {"USD", "JPY"} |-> IF c = "USD" THEN 1 ELSE 150]

\* the rates of a day on which the yen stands higher
FXRatesMoved == [c \in {"USD", "JPY"} |-> IF c = "USD" THEN 1 ELSE 75]

\* what open.er-api.com can answer
FXRateTables == {FXRates, FXRatesMoved}

Quote(marketCap, price, yearHigh, changePercentage) ==
    [name |-> "Quote Name", price |-> price, changePercentage |-> changePercentage,
     marketCap |-> marketCap, yearHigh |-> yearHigh]

\* quotes below the new-symbol floor, between the floors, and at or above
\* the floor of the full run
QuotePayloads ==
    {Quote(0, 600, 900, 1),
     Quote(500000000, 600, Null, -2),
     Quote(1000000000, 600, 900, 1),
     Quote(2000000000, 0, Null, -2)}

ProfilePayloads == {[companyName |-> "Profile Name", country |-> "JP"]}

Quarters ==
    <<[revenue |-> 450, netIncome |-> 300, operatingIncome |-> 450],
      [revenue |-> 450, netIncome |-> -150, operatingIncome |-> 450]>>

\* quarters whose revenue and net income sum to zero
FlatQuarters ==
    <<[revenue |-> Null, netIncome |-> 150, operatingIncome |-> 30],
      [revenue |-> 0, netIncome |-> -150, operatingIncome |-> Null]>>

\* { statements, reportedCurrency } as fetchQuarterlyIncome returns it
IncomePayloads ==
    {[statements |-> Quarters, reportedCurrency |-> "USD"],
     [statements |-> Quarters, reportedCurrency |-> "JPY"],
     [statements |-> FlatQuarters, reportedCurrency |-> "USD"]}

RatiosPayloads ==
    {[priceToEarningsRatioTTM |-> 20, dividendYieldTTM |-> 3]}

GrowthPayloads ==
    {[fiveYRevenueGrowthPerShare |-> 31, threeYRevenueGrowthPerShare |-> 7,
      fiveYNetIncomeGrowthPerShare |-> -2, threeYNetIncomeGrowthPerShare |-> Null]}

\* the estimate fetchAnalystEstimates selected
EstimatePayloads ==
    {[date |-> "2027-12-31", epsAvg |-> 300]}

\* the Maps processSymbolsBatch can return for the symbols syms
BatchResults(syms, payloads) == UNION {[D -> payloads] : D \in SUBSET syms}

\* the Maps of one run
Fetched ==
    [quotes |-> quotes, profiles |-> profiles, fxRates |-> fxRates,
     incomeStatements |-> incomeStatements, ratios |-> ratios,
     growth |-> growth, estimates |-> estimates]

NoMap == <<>>

NothingFetched ==
    [quotes |-> NoMap, profiles |-> NoMap, fxRates |-> NoMap,
     incomeStatements |-> NoMap, ratios |-> NoMap, growth |-> NoMap,
     estimates |-> NoMap]

-----------------------------------------------------------------------------
(* Metric calculation and currency normalization *)

\* variant: the rate of "USD" is looked up like any other
toUSD_LooksUpUSD(amount, currency, rates) ==
    IF ~Has(rates, currency) \/ Falsy(rates[currency]) THEN amount
    ELSE amount \div rates[currency]

\* amount / rate, on amounts that are multiples of the rate
toUSD(amount, currency, rates) ==
    IF currency = "USD" THEN amount
    ELSE IF ~Has(rates, currency) \/ Falsy(rates[currency]) THEN amount
    ELSE amount \div rates[currency]

totalGrowthToCAGR(totalGrowth) ==
    IF totalGrowth <= -1 THEN -1 ELSE Root(1 + totalGrowth, 5) - 1

totalGrowthToCAGR3Y(totalGrowth) ==
    IF totalGrowth <= -1 THEN -1 ELSE Root(1 + totalGrowth, 3) - 1

\* stmts.reduce((sum, q) => sum + (q[field] || 0), 0)
RECURSIVE SumField(_, _)
SumField(stmts, field) ==
    IF stmts = <<>> THEN 0
    ELSE OrZero(Head(stmts)[field]) + SumField(Tail(stmts), field)

\* incomeResult?.reportedCurrency || "USD"
ReportedCurrency(f, symbol) ==
    IF Has(f.incomeStatements, symbol)
       /\ f.incomeStatements[symbol].reportedCurrency # ""
    THEN f.incomeStatements[symbol].reportedCurrency
    ELSE "USD"

\* if (incomeResult && incomeResult.statements.length > 0)
HasStatements(f, symbol) ==
    Has(f.incomeStatements, symbol)
    /\ Len(f.incomeStatements[symbol].statements) > 0

\* TTM revenue, operating margin and earnings; old is the value kept when
\* the guard of the assignment fails
TTMRevenue(f, symbol, currency, old) ==
    LET revenue == SumField(f.incomeStatements[symbol].statements, "revenue")
    IN  IF HasStatements(f, symbol) /\ revenue > 0
        THEN toUSD(revenue, currency, f.fxRates) ELSE old

TTMOperatingMargin(f, symbol, old) ==
    LET stmts == f.incomeStatements[symbol].statements
        revenue == SumField(stmts, "revenue")
    IN  IF HasStatements(f, symbol) /\ revenue > 0
        THEN SumField(stmts, "operatingIncome") \div revenue ELSE old

TTMEarnings(f, symbol, currency, old) ==
    LET netIncome == SumField(f.incomeStatements[symbol].statements, "netIncome")
    IN  IF HasStatements(f, symbol) /\ netIncome # 0
        THEN toUSD(netIncome, currency, f.fxRates) ELSE old

\* ratio?.priceToEarningsRatioTTM ?? null
PERatio(f, symbol) ==
    IF Has(f.ratios, symbol) THEN f.ratios[symbol].priceToEarningsRatioTTM ELSE Null

\* if (peRatio && peRatio > 0 && price) ttmEPS = price / peRatio
TTMEPS(peRatio, price, old) ==
    IF ~Falsy(peRatio) /\ peRatio > 0 /\ ~Falsy(price) THEN price \div peRatio ELSE old

\* if (estimate?.epsAvg && estimate.epsAvg > 0)
HasEstimate(f, symbol) ==
    /\ Has(f.estimates, symbol)
    /\ ~Falsy(f.estimates[symbol].epsAvg)
    /\ f.estimates[symbol].epsAvg > 0

\* variant: the estimate is converted with the rates of an earlier day
ForwardEPS_OtherTable(f, symbol, currency, old) ==
    IF HasEstimate(f, symbol)
    THEN toUSD(f.estimates[symbol].epsAvg, currency, FXRates) ELSE old

ForwardEPS(f, symbol, currency, old) ==
    IF HasEstimate(f, symbol)
    THEN toUSD(f.estimates[symbol].epsAvg, currency, f.fxRates) ELSE old

ForwardEPSDate(f, symbol, old) ==
    IF HasEstimate(f, symbol) THEN f.estimates[symbol].date ELSE old

ForwardPE(f, symbol, currency, price, old) ==
    LET epsUSD == ForwardEPS(f, symbol, currency, Null)
    IN  IF HasEstimate(f, symbol) /\ ~Falsy(price) /\ epsUSD > 0
        THEN price \div epsUSD ELSE old

\* one growth metric: converted when the payload has the field, else old
Growth(f, symbol, field, old) ==
    IF Has(f.growth, symbol) /\ f.growth[symbol][field] # Null
    THEN IF field \in {"fiveYRevenueGrowthPerShare", "fiveYNetIncomeGrowthPerShare"}
         THEN totalGrowthToCAGR(f.growth[symbol][field])
         ELSE totalGrowthToCAGR3Y(f.growth[symbol][field])
    ELSE old

-----------------------------------------------------------------------------
(* Record assembly *)

\* profile?.companyName || quote.name || symbol
CompanyName(f, symbol) ==
    IF Has(f.profiles, symbol) /\ f.profiles[symbol].companyName # ""
    THEN f.profiles[symbol].companyName
    ELSE IF f.quotes[symbol].name # "" THEN f.quotes[symbol].name
    ELSE symbol

\* profile?.country || "US"
Country(f, symbol) ==
    IF Has(f.profiles, symbol) /\ f.profiles[symbol].country # ""
    THEN f.profiles[symbol].country
    ELSE "US"

\* the CompanyData pushed for one valid symbol
CompanyData(f, symbol) ==
    LET quote == f.quotes[symbol]
        currency == ReportedCurrency(f, symbol)
        peRatio == PERatio(f, symbol)
    IN  [symbol |-> symbol,
         name |-> CompanyName(f, symbol),
         country |-> Country(f, symbol),
         marketCap |-> quote.marketCap,
         price |-> quote.price,
         week52High |-> Nullish(quote.yearHigh, Null),
         dailyChangePercent |-> quote.changePercentage,
         peRatio |-> peRatio,
         ttmEPS |-> TTMEPS(peRatio, quote.price, Null),
         earnings |-> TTMEarnings(f, symbol, currency, Null),
         revenue |-> TTMRevenue(f, symbol, currency, Null),
         operatingMargin |-> TTMOperatingMargin(f, symbol, Null),
         dividendPercent |->
             IF Has(f.ratios, symbol)
             THEN Nullish(f.ratios[symbol].dividendYieldTTM, Null) ELSE Null,
         forwardPE |-> ForwardPE(f, symbol, currency, quote.price, Null),
         forwardEPS |-> ForwardEPS(f, symbol, currency, Null),
         forwardEPSDate |-> ForwardEPSDate(f, symbol, NullData),
         revenueGrowth5Y |-> Growth(f, symbol, "fiveYRevenueGrowthPerShare", Null),
         revenueGrowth3Y |-> Growth(f, symbol, "threeYRevenueGrowthPerShare", Null),
         epsGrowth5Y |-> Growth(f, symbol, "fiveYNetIncomeGrowthPerShare", Null),
         epsGrowth3Y |-> Growth(f, symbol, "threeYNetIncomeGrowthPerShare", Null)]

\* the DatabaseCompany made of a CompanyData
DatabaseCompany(c, rank, timestamp) ==
    [symbol |-> c.symbol,
     name |-> c.name,
     rank |-> rank,
     market_cap |-> c.marketCap,
     price |-> c.price,
     week_52_high |-> c.week52High,
     daily_change_percent |-> c.dailyChangePercent,
     earnings |-> c.earnings,
     revenue |-> c.revenue,
     pe_ratio |-> c.peRatio,
     ttm_eps |-> c.ttmEPS,
     forward_pe |-> c.forwardPE,
     forward_eps |-> c.forwardEPS,
     forward_eps_date |-> c.forwardEPSDate,
     dividend_percent |-> c.dividendPercent,
     operating_margin |-> c.operatingMargin,
     revenue_growth_5y |-> c.revenueGrowth5Y,
     revenue_growth_3y |-> c.revenueGrowth3Y,
     eps_growth_5y |-> c.epsGrowth5Y,
     eps_growth_3y |-> c.epsGrowth3Y,
     country |-> c.country,
     last_updated |-> timestamp]

\* symbols.filter(s => quote && quote.marketCap && quote.marketCap >= floor)
\* variant: the filter of the older US-only scraper, marketCap > 0
ValidQuote_Positive(f, symbol, floor) ==
    /\ Has(f.quotes, symbol)
    /\ ~Falsy(f.quotes[symbol].marketCap)
    /\ f.quotes[symbol].marketCap > 0

ValidQuote(f, symbol, floor) ==
    /\ Has(f.quotes, symbol)
    /\ ~Falsy(f.quotes[symbol].marketCap)
    /\ f.quotes[symbol].marketCap >= floor

FilterValid(f, syms, floor) == SelectSeq(syms, LAMBDA s : ValidQuote(f, s, floor))

\* the sort key of either record type: (marketCap || 0)
SortKey(c) ==
    IF "market_cap" \in DOMAIN c THEN OrZero(c.market_cap) ELSE OrZero(c.marketCap)

\* variant: a sort that is not stable, records of equal key change places
RECURSIVE InsertByMarketCap_TiesReversed(_, _)
InsertByMarketCap_TiesReversed(sorted, c) ==
    IF sorted = <<>> THEN <<c>>
    ELSE IF SortKey(Head(sorted)) > SortKey(c)
         THEN <<Head(sorted)>> \o InsertByMarketCap_TiesReversed(Tail(sorted), c)
         ELSE <<c>> \o sorted

\* Array.prototype.sort with (a, b) => key(b) - key(a): descending and stable
RECURSIVE InsertByMarketCap(_, _)
InsertByMarketCap(sorted, c) ==
    IF sorted = <<>> THEN <<c>>
    ELSE IF SortKey(Head(sorted)) >= SortKey(c)
         THEN <<Head(sorted)>> \o InsertByMarketCap(Tail(sorted), c)
         ELSE <<c>> \o sorted

\* variant: the sort left out
SortByMarketCap_Unsorted(cs) == cs

RECURSIVE SortByMarketCap(_)
SortByMarketCap(cs) ==
    IF cs = <<>> THEN <<>>
    ELSE InsertByMarketCap(SortByMarketCap(SubSeq(cs, 1, Len(cs) - 1)), cs[Len(cs)])

\* steps 6 to 8 of runFMPScraper: build, sort, rank, convert
BuildCompanies(f, valid, timestamp) ==
    LET companies == [k \in 1..Len(valid) |-> CompanyData(f, valid[k])]
        sorted == SortByMarketCap(companies)
    IN  [k \in 1..Len(sorted) |-> DatabaseCompany(sorted[k], k, timestamp)]

-----------------------------------------------------------------------------
(* runPartialUpdate: the working Map and the per-category updates *)

PositionOf(cs, symbol) == CHOOSE k \in DOMAIN cs : cs[k].symbol = symbol

\* companyMap.set(company.symbol, company): a Map keeps the position of the
\* first insertion of a key and the value of the last
MapSet(map, company) ==
    IF \E k \in DOMAIN map : map[k].symbol = company.symbol
    THEN [map EXCEPT ![PositionOf(map, company.symbol)] = company]
    ELSE Append(map, company)

RECURSIVE ToCompanyMap(_)
ToCompanyMap(cs) ==
    IF cs = <<>> THEN <<>>
    ELSE MapSet(ToCompanyMap(SubSeq(cs, 1, Len(cs) - 1)), cs[Len(cs)])

UpdateForwardPE(company, f) ==
    LET currency == ReportedCurrency(f, company.symbol)
    IN  [company EXCEPT
           !.forward_eps = ForwardEPS(f, company.symbol, currency, @),
           !.forward_eps_date = ForwardEPSDate(f, company.symbol, @),
           !.forward_pe = ForwardPE(f, company.symbol, currency, company.price, @)]

UpdateQuotes(company, f) ==
    IF Has(f.quotes, company.symbol)
    THEN LET quote == f.quotes[company.symbol]
         IN  [company EXCEPT
                !.price = quote.price,
                !.market_cap = quote.marketCap,
                !.week_52_high = Nullish(quote.yearHigh, Nullish(@, Null)),
                !.daily_change_percent = quote.changePercentage]
    ELSE company

UpdateWeek52High(company, f) ==
    IF Has(f.quotes, company.symbol)
    THEN [company EXCEPT
            !.week_52_high =
                Nullish(f.quotes[company.symbol].yearHigh, Nullish(@, Null))]
    ELSE company

UpdateFinancials(company, f) ==
    LET symbol == company.symbol
        currency == f.incomeStatements[symbol].reportedCurrency
        withIncome ==
            IF HasStatements(f, symbol)
            THEN [company EXCEPT
                    !.revenue = TTMRevenue(f, symbol, currency, @),
                    !.operating_margin = TTMOperatingMargin(f, symbol, @),
                    !.earnings = TTMEarnings(f, symbol, currency, @)]
            ELSE company
    IN  IF Has(f.ratios, symbol)
        THEN LET ratio == f.ratios[symbol]
             IN  [withIncome EXCEPT
                    !.pe_ratio = Nullish(ratio.priceToEarningsRatioTTM, @),
                    !.dividend_percent = Nullish(ratio.dividendYieldTTM, @),
                    !.ttm_eps = TTMEPS(ratio.priceToEarningsRatioTTM, company.price, @)]
        ELSE withIncome

\* variant: a missing growth payload clears the metrics
UpdateGrowth_ResetsOnMiss(company, f) ==
    [company EXCEPT
       !.revenue_growth_5y = Growth(f, company.symbol, "fiveYRevenueGrowthPerShare", Null),
       !.revenue_growth_3y = Growth(f, company.symbol, "threeYRevenueGrowthPerShare", Null),
       !.eps_growth_5y = Growth(f, company.symbol, "fiveYNetIncomeGrowthPerShare", Null),
       !.eps_growth_3y = Growth(f, company.symbol, "threeYNetIncomeGrowthPerShare", Null)]

UpdateGrowth(company, f) ==
    [company EXCEPT
       !.revenue_growth_5y = Growth(f, company.symbol, "fiveYRevenueGrowthPerShare", @),
       !.revenue_growth_3y = Growth(f, company.symbol, "threeYRevenueGrowthPerShare", @),
       !.eps_growth_5y = Growth(f, company.symbol, "fiveYNetIncomeGrowthPerShare", @),
       !.eps_growth_3y = Growth(f, company.symbol, "threeYNetIncomeGrowthPerShare", @)]

\* variant: the update also clears forward_pe
UpdatePERatio_ClearsForward(company, f) ==
    LET peRatio == PERatio(f, company.symbol)
    IN  IF ~Falsy(peRatio) /\ peRatio > 0
        THEN [company EXCEPT !.pe_ratio = peRatio,
                             !.ttm_eps = TTMEPS(peRatio, company.price, @),
                             !.forward_pe = Null]
        ELSE company

UpdatePERatio(company, f) ==
    LET peRatio == PERatio(f, company.symbol)
    IN  IF ~Falsy(peRatio) /\ peRatio > 0
        THEN [company EXCEPT !.pe_ratio = peRatio,
                             !.ttm_eps = TTMEPS(peRatio, company.price, @)]
        ELSE company

\* variant: a company reporting in USD is recomputed like any other
UpdateCurrencyFix_ConvertsUSD(company, f) ==
    LET symbol == company.symbol
        currency == f.incomeStatements[symbol].reportedCurrency
    IN  IF ~Has(f.incomeStatements, symbol) THEN company
        ELSE [company EXCEPT
                !.revenue = TTMRevenue(f, symbol, currency, @),
                !.operating_margin = TTMOperatingMargin(f, symbol, @),
                !.earnings = TTMEarnings(f, symbol, currency, @),
                !.forward_eps = ForwardEPS(f, symbol, currency, @),
                !.forward_eps_date = ForwardEPSDate(f, symbol, @),
                !.forward_pe = ForwardPE(f, symbol, currency, company.price, @)]

UpdateCurrencyFix(company, f) ==
    LET symbol == company.symbol
        currency == f.incomeStatements[symbol].reportedCurrency
    IN  IF ~Has(f.incomeStatements, symbol) THEN company
        ELSE IF currency = "USD" THEN company
        ELSE [company EXCEPT
                !.revenue = TTMRevenue(f, symbol, currency, @),
                !.operating_margin = TTMOperatingMargin(f, symbol, @),
                !.earnings = TTMEarnings(f, symbol, currency, @),
                !.forward_eps = ForwardEPS(f, symbol, currency, @),
                !.forward_eps_date = ForwardEPSDate(f, symbol, @),
                !.forward_pe = ForwardPE(f, symbol, currency, company.price, @)]

\* the counters of the currency_fix loop after it went over map: a company
\* without an income statement counts in neither
RECURSIVE CurrencyFixCounts(_, _)
CurrencyFixCounts(map, f) ==
    IF map = <<>> THEN [updated |-> 0, skippedUSD |-> 0]
    ELSE LET before == CurrencyFixCounts(SubSeq(map, 1, Len(map) - 1), f)
             symbol == map[Len(map)].symbol
         IN  IF ~Has(f.incomeStatements, symbol) THEN before
             ELSE IF f.incomeStatements[symbol].reportedCurrency = "USD"
             THEN [before EXCEPT !.skippedUSD = @ + 1]
             ELSE [before EXCEPT !.updated = @ + 1]

\* the dbCompany built for a new supplemental symbol: rank null
NewCompany(f, symbol, timestamp) ==
    DatabaseCompany(CompanyData(f, symbol), Null, timestamp)

RECURSIVE AddNewCompanies(_, _, _, _)
AddNewCompanies(map, f, valid, timestamp) ==
    IF valid = <<>> THEN map
    ELSE AddNewCompanies(MapSet(map, NewCompany(f, Head(valid), timestamp)),
                         f, Tail(valid), timestamp)

\* sortedCompanies.forEach((c, i) => c.rank = i + 1) on the quotes path: the
\* sorted array shares its objects with companyMap, whose order stays
RankInPlace(map) ==
    LET sorted == SortByMarketCap(map)
    IN  [k \in DOMAIN map |->
           [map[k] EXCEPT !.rank = PositionOf(sorted, map[k].symbol)]]

\* the new_symbols path: rank, then clear companyMap and refill it sorted
RankAndReorder(map) ==
    LET sorted == SortByMarketCap(map)
    IN  [k \in DOMAIN sorted |-> [sorted[k] EXCEPT !.rank = k]]

\* variant: only the first company of the Map is stamped
Restamp_FirstOnly(map, timestamp) ==
    [k \in DOMAIN map |->
       IF k = 1 THEN [map[k] EXCEPT !.last_updated = timestamp] ELSE map[k]]

\* for (const company of companyMap.values()) company.last_updated = timestamp
Restamp(map, timestamp) ==
    [k \in DOMAIN map |-> [map[k] EXCEPT !.last_updated = timestamp]]

\* variant: every supplemental symbol is fetched again
NewSymbols_Unfiltered(existing) == SUPPLEMENTAL_SYMBOLS

\* SUPPLEMENTAL_SYMBOLS.filter(s => !existingSymbolSet.has(s))
NewSymbols(existing) ==
    SelectSeq(SUPPLEMENTAL_SYMBOLS,
              LAMBDA s : s \notin {existing[k].symbol : k \in DOMAIN existing})

\* the loop of one update category over companyMap, with its re-ranking
ApplyUpdate(category, map, f, valid, timestamp) ==
    CASE category = "forward_pe" -> [k \in DOMAIN map |-> UpdateForwardPE(map[k], f)]
      [] category = "quotes" ->
             RankInPlace([k \in DOMAIN map |-> UpdateQuotes(map[k], f)])
      [] category = "week_52_high" -> [k \in DOMAIN map |-> UpdateWeek52High(map[k], f)]
      [] category = "financials" -> [k \in DOMAIN map |-> UpdateFinancials(map[k], f)]
      [] category = "growth" -> [k \in DOMAIN map |-> UpdateGrowth(map[k], f)]
      [] category = "pe_ratio" -> [k \in DOMAIN map |-> UpdatePERatio(map[k], f)]
      [] category = "currency_fix" -> [k \in DOMAIN map |-> UpdateCurrencyFix(map[k], f)]
      [] category = "new_symbols" ->
             RankAndReorder(AddNewCompanies(map, f, valid, timestamp))

-----------------------------------------------------------------------------
(* Snapshots: data/companies.json and the blob *)

NoFile == [exists |-> FALSE, companies |-> <<>>, lastUpdated |-> NullData,
           exportedAt |-> NullData]

\* const jsonData = { companies, lastUpdated, exportedAt: lastUpdated }
JsonData(r) ==
    [exists |-> TRUE, companies |-> r.companies, lastUpdated |-> r.lastUpdated,
     exportedAt |-> r.lastUpdated]

NoResult == [companies |-> <<>>, lastUpdated |-> NullData]

\* Snapshots of at least one record an earlier run can have left behind.  A
\* symbol of an earlier full run had every endpoint answer (reporting in USD
\* or in JPY), or only its quote, or no quote at all.
SeedCompanies ==
    {[quote |-> Quote(1000000000, 600, 900, 1), full |-> TRUE, currency |-> "USD"],
     [quote |-> Quote(2000000000, 1200, Null, -2), full |-> TRUE, currency |-> "JPY"],
     [quote |-> Quote(1000000000, 0, Null, 0), full |-> FALSE, currency |-> "USD"]}

SeedFetched(kinds) ==
    LET full == {s \in DOMAIN kinds : kinds[s].full}
    IN  [quotes |-> [s \in DOMAIN kinds |-> kinds[s].quote],
         profiles |-> [s \in full |-> CHOOSE p \in ProfilePayloads : TRUE],
         fxRates |-> FXRates,
         incomeStatements |->
             [s \in full |-> [statements |-> Quarters,
                              reportedCurrency |-> kinds[s].currency]],
         ratios |-> [s \in full |-> CHOOSE r \in RatiosPayloads : TRUE],
         growth |-> [s \in full |-> CHOOSE g \in GrowthPayloads : TRUE],
         estimates |-> [s \in full |-> [date |-> "2026-12-31", epsAvg |-> 300]]]

SeedUniverses == {<<"AAA", "TCEHY">>, <<"AAA", "AAA", "TCEHY">>}

\* written by a full run of the CLI
FullSeed(universe, kinds) ==
    JsonData([companies |->
                  BuildCompanies(SeedFetched(kinds),
                                 FilterValid(SeedFetched(kinds), universe,
                                             MARKET_CAP_FLOOR),
                                 SeedStamp),
              lastUpdated |-> SeedStamp])

FullSeeds ==
    {s \in {FullSeed(u, k) : u \in SeedUniverses,
                             k \in BatchResults(ScreenerSymbols, SeedCompanies)} :
        s.companies # <<>>}

\* written by a partial update of such a snapshot whose fetches returned
\* nothing
UpdatedSeed(seed) ==
    JsonData([companies |->
                  Restamp(ApplyUpdate("growth", ToCompanyMap(seed.companies),
                                      NothingFetched, <<>>, SeedStamp),
                          SeedStamp),
              lastUpdated |-> SeedStamp])

Seeds == FullSeeds \cup {UpdatedSeed(s) : s \in FullSeeds}

\* a snapshot of two ranked companies
GoodSeed ==
    FullSeed(<<"AAA", "TCEHY">>,
             [s \in ScreenerSymbols |->
                CHOOSE k \in SeedCompanies : k.full /\ k.currency = "USD"])

Categories ==
    {"forward_pe", "quotes", "financials", "growth", "pe_ratio",
     "week_52_high", "new_symbols", "currency_fix"}

\* variant: the growth fetch of a full run comes before the ratios fetch
Plan_GrowthBeforeRatios(category) ==
    CASE category = "none" ->
             <<"stocks", "quotes", "profiles", "fx", "income", "growth",
               "ratios", "estimates", "assemble">>
      [] category \in {"forward_pe", "currency_fix"} ->
             <<"fx", "income", "estimates", "apply">>
      [] category \in {"quotes", "week_52_high"} -> <<"quotes", "apply">>
      [] category = "financials" -> <<"fx", "income", "ratios", "apply">>
      [] category = "growth" -> <<"growth", "apply">>
      [] category = "pe_ratio" -> <<"ratios", "apply">>
      [] category = "new_symbols" ->
             <<"fx", "quotes", "profiles", "income", "ratios", "growth",
               "estimates", "apply">>

\* the awaits of a run, in program order
Plan(category) ==
    CASE category = "none" ->
             <<"stocks", "quotes", "profiles", "fx", "income", "ratios",
               "growth", "estimates", "assemble">>
      [] category \in {"forward_pe", "currency_fix"} ->
             <<"fx", "income", "estimates", "apply">>
      [] category \in {"quotes", "week_52_high"} -> <<"quotes", "apply">>
      [] category = "financials" -> <<"fx", "income", "ratios", "apply">>
      [] category = "growth" -> <<"growth", "apply">>
      [] category = "pe_ratio" -> <<"ratios", "apply">>
      [] category = "new_symbols" ->
             <<"fx", "quotes", "profiles", "income", "ratios", "growth",
               "estimates", "apply">>

After(category, stage) ==
    LET plan == Plan(category)
    IN  plan[(CHOOSE k \in DOMAIN plan : plan[k] = stage) + 1]

\* the symbols a stage fetches: the quotes stage and every stage of a
\* field update take the whole list, the later stages of a full run and of
\* new_symbols take the symbols that passed the quote filter
StageSymbols(stage) ==
    IF stage = "quotes" \/ only \notin {"none", "new_symbols"}
    THEN Range(allSymbols) ELSE Range(validSymbols)

\* searchParams.get("token") (null when the parameter is missing) and
\* process.env.SCRAPER_SECRET (undefined when it is not set)
Requests ==
    [token : {NullData, "", "wrong", "s3cret"}, secret : {"undefined", "s3cret"}]

\* the CLI has no request
NoRequest == [token |-> NullData, secret |-> "undefined"]

\* the keys of the bodies the route answers with: 401, 500 and 200
UnauthorizedBody == {"error"}
ErrorBody == {"error", "duration"}
SuccessBody == {"success", "companies", "duration", "blobUrl", "lastUpdated"}

\* variant: a request without a token passes
Authorized_MissingTokenPasses(req) == req.token = NullData \/ req.token = req.secret

\* token !== process.env.SCRAPER_SECRET
Authorized(req) == req.token = req.secret

\* an uncaught error: main().catch exits with 1, the route answers 500
Failure == IF entry = "main" THEN "exit 1" ELSE "500"

Fail ==
    /\ pc' = "done"
    /\ outcome' = Failure
    /\ response' = IF entry = "GET" THEN ErrorBody ELSE response

-----------------------------------------------------------------------------
(* One invocation: the CLI (main) or the scrape route (GET) *)

\* main up to its first await: the API key, parseArgs, and for --only the
\* prologue of runPartialUpdate (load the snapshot, build companyMap; for
\* new_symbols find the missing supplemental symbols)
main ==
    /\ pc = "start"
    /\ entry = "main"
    /\ \E FMP_API_KEY \in BOOLEAN :
          IF ~FMP_API_KEY \/ only \notin Categories \cup {"none"}
          THEN /\ pc' = "done"
               /\ outcome' = "exit 1"
               /\ UNCHANGED <<allSymbols, updateVars, result>>
          ELSE IF only = "none"
          THEN /\ pc' = "stocks"
               /\ UNCHANGED <<outcome, allSymbols, updateVars, result>>
          ELSE IF ~file.exists
          THEN /\ Fail
               /\ UNCHANGED <<allSymbols, updateVars, result>>
          ELSE /\ existingData' = file
               /\ companyMap' = ToCompanyMap(file.companies)
               /\ IF only # "new_symbols"
                  THEN /\ allSymbols' = [k \in DOMAIN file.companies |->
                                           file.companies[k].symbol]
                       /\ pc' = Plan(only)[1]
                       /\ UNCHANGED <<outcome, result>>
                  ELSE IF NewSymbols(file.companies) = <<>>
                  THEN /\ result' = [companies |-> file.companies,
                                     lastUpdated |-> file.lastUpdated]
                       /\ pc' = "returned"
                       /\ UNCHANGED <<outcome, allSymbols>>
                  ELSE /\ allSymbols' = NewSymbols(file.companies)
                       /\ pc' = Plan(only)[1]
                       /\ UNCHANGED <<outcome, result>>
    /\ UNCHANGED <<entry, only, request, response, file, blob, screenerPages,
                   validSymbols, quotes, profiles, fxRates, incomeStatements,
                   ratios, growth, estimates>>
    /\ UNCHANGED <<fetchVars, pureVars>>

\* GET up to its first await: the secret token
GET ==
    /\ pc = "start"
    /\ entry = "GET"
    /\ IF ~Authorized(request)
       THEN /\ pc' = "done"
            /\ outcome' = "401"
            /\ response' = UnauthorizedBody
       ELSE /\ pc' = "stocks"
            /\ UNCHANGED <<outcome, response>>
    /\ UNCHANGED <<entry, only, request, file, blob, stageVars, updateVars, result>>
    /\ UNCHANGED <<fetchVars, pureVars>>

\* what the company-screener holds: its pages, in order; a page past the
\* last one is empty
ScreenerPageSets == UNION {[1..n -> ScreenerSymbols] : n \in 0..PageLimit}

ScreenerServers == UNION {[1..n -> ScreenerPageSets] : n \in 0..MaxPages}

\* response.data of the request for a page (pages count from 0)
ServerPage(server, page) ==
    IF page + 1 \in DOMAIN server THEN server[page + 1] ELSE <<>>

\* variant: the symbols of the last, short page are left out
RECURSIVE Paginate_DropsShortPage(_, _, _)
Paginate_DropsShortPage(server, page, sofar) ==
    LET data == ServerPage(server, page)
        asked == [sofar EXCEPT !.requests = Append(@, page),
                               !.responses = Append(@, data)]
    IN  IF Len(data) < PageLimit THEN asked
        ELSE Paginate_DropsShortPage(server, page + 1,
                                     [asked EXCEPT !.allSymbols = @ \o data])

\* the while loop of fetchGlobalStocks from a page on: the pages requested,
\* the responses, and the symbols pushed
RECURSIVE Paginate(_, _, _)
Paginate(server, page, sofar) ==
    LET data == ServerPage(server, page)
        asked == [sofar EXCEPT !.requests = Append(@, page),
                               !.responses = Append(@, data)]
        pushed == [asked EXCEPT !.allSymbols = @ \o data]
    IN  IF data = <<>> THEN asked
        ELSE IF Len(data) < PageLimit THEN pushed
        ELSE Paginate(server, page + 1, pushed)

\* variant: an empty screener result is not an error
GlobalStocks_NoThrow(server) ==
    LET loop == Paginate(server, 0, [requests |-> <<>>, responses |-> <<>>,
                                     allSymbols |-> <<>>])
        added == SelectSeq(SUPPLEMENTAL_SYMBOLS,
                           LAMBDA s : s \notin Range(loop.allSymbols))
    IN  [threw |-> FALSE, requests |-> loop.requests,
         responses |-> loop.responses, allSymbols |-> loop.allSymbols \o added]

\* fetchGlobalStocks against a screener: it throws on an empty list, else
\* appends the supplemental symbols the screener did not return
GlobalStocks(server) ==
    LET loop == Paginate(server, 0, [requests |-> <<>>, responses |-> <<>>,
                                     allSymbols |-> <<>>])
        added == SelectSeq(SUPPLEMENTAL_SYMBOLS,
                           LAMBDA s : s \notin Range(loop.allSymbols))
    IN  IF Len(loop.allSymbols) = 0
        THEN [threw |-> TRUE, requests |-> loop.requests,
              responses |-> loop.responses, allSymbols |-> <<>>]
        ELSE [threw |-> FALSE, requests |-> loop.requests,
              responses |-> loop.responses,
              allSymbols |-> loop.allSymbols \o added]

\* the screeners of at most MaxScreener listed symbols
SmallServers ==
    {server \in ScreenerServers :
        Len(Paginate(server, 0, [requests |-> <<>>, responses |-> <<>>,
                                 allSymbols |-> <<>>]).allSymbols) <= MaxScreener}

\* fetchGlobalStocks: a failed request throws, and so does an empty list
fetchGlobalStocks ==
    /\ pc = "stocks"
    /\ \/ /\ Fail
          /\ UNCHANGED <<screenerPages, allSymbols>>
       \/ \E server \in SmallServers :
             LET stocks == GlobalStocks(server)
             IN  /\ screenerPages' = stocks.responses
                 /\ IF stocks.threw
                    THEN /\ Fail
                         /\ UNCHANGED allSymbols
                    ELSE /\ allSymbols' = stocks.allSymbols
                         /\ pc' = After(only, "stocks")
                         /\ UNCHANGED <<outcome, response>>
    /\ UNCHANGED <<entry, only, request, file, blob, validSymbols, quotes, profiles,
                   fxRates, incomeStatements, ratios, growth, estimates,
                   updateVars, result>>
    /\ UNCHANGED <<fetchVars, pureVars>>

\* fetchBatchQuotes, then the quote filter of a full run or of new_symbols
fetchBatchQuotes ==
    /\ pc = "quotes"
    /\ \E m \in BatchResults(StageSymbols("quotes"), QuotePayloads) :
          /\ quotes' = m
          /\ validSymbols' =
                IF only = "none"
                THEN FilterValid([Fetched EXCEPT !.quotes = m], allSymbols,
                                 MARKET_CAP_FLOOR)
                ELSE IF only = "new_symbols"
                THEN FilterValid([Fetched EXCEPT !.quotes = m], allSymbols,
                                 NEW_SYMBOL_MARKET_CAP_FLOOR)
                ELSE validSymbols
    /\ pc' = After(only, "quotes")
    /\ UNCHANGED <<entry, only, request, outcome, response, file, blob, screenerPages, allSymbols, profiles,
                   fxRates, incomeStatements, ratios, growth, estimates,
                   updateVars, result>>
    /\ UNCHANGED <<fetchVars, pureVars>>

fetchBatchProfiles ==
    /\ pc = "profiles"
    /\ profiles' \in BatchResults(StageSymbols("profiles"), ProfilePayloads)
    /\ pc' = After(only, "profiles")
    /\ UNCHANGED <<entry, only, request, outcome, response, file, blob, screenerPages, allSymbols, validSymbols,
                   quotes, fxRates, incomeStatements, ratios, growth,
                   estimates, updateVars, result>>
    /\ UNCHANGED <<fetchVars, pureVars>>

\* fetchFXRates is not wrapped in fetchWithRetry: a failed request throws
fetchFXRates ==
    /\ pc = "fx"
    /\ \/ /\ Fail
          /\ UNCHANGED fxRates
       \/ /\ fxRates' \in FXRateTables
          /\ pc' = After(only, "fx")
          /\ UNCHANGED <<outcome, response>>
    /\ UNCHANGED <<entry, only, request, file, blob, screenerPages, allSymbols, validSymbols, quotes,
                   profiles, incomeStatements, ratios, growth, estimates,
                   updateVars, result>>
    /\ UNCHANGED <<fetchVars, pureVars>>

fetchQuarterlyIncome ==
    /\ pc = "income"
    /\ incomeStatements' \in BatchResults(StageSymbols("income"), IncomePayloads)
    /\ pc' = After(only, "income")
    /\ UNCHANGED <<entry, only, request, outcome, response, file, blob, screenerPages, allSymbols, validSymbols,
                   quotes, profiles, fxRates, ratios, growth, estimates,
                   updateVars, result>>
    /\ UNCHANGED <<fetchVars, pureVars>>

fetchRatiosTTM ==
    /\ pc = "ratios"
    /\ ratios' \in BatchResults(StageSymbols("ratios"), RatiosPayloads)
    /\ pc' = After(only, "ratios")
    /\ UNCHANGED <<entry, only, request, outcome, response, file, blob, screenerPages, allSymbols, validSymbols,
                   quotes, profiles, fxRates, incomeStatements, growth,
                   estimates, updateVars, result>>
    /\ UNCHANGED <<fetchVars, pureVars>>

fetchFinancialGrowth ==
    /\ pc = "growth"
    /\ growth' \in BatchResults(StageSymbols("growth"), GrowthPayloads)
    /\ pc' = After(only, "growth")
    /\ UNCHANGED <<entry, only, request, outcome, response, file, blob, screenerPages, allSymbols, validSymbols,
                   quotes, profiles, fxRates, incomeStatements, ratios,
                   estimates, updateVars, result>>
    /\ UNCHANGED <<fetchVars, pureVars>>

fetchAnalystEstimates ==
    /\ pc = "estimates"
    /\ estimates' \in BatchResults(StageSymbols("estimates"), EstimatePayloads)
    /\ pc' = After(only, "estimates")
    /\ UNCHANGED <<entry, only, request, outcome, response, file, blob, screenerPages, allSymbols, validSymbols,
                   quotes, profiles, fxRates, incomeStatements, ratios,
                   growth, updateVars, result>>
    /\ UNCHANGED <<fetchVars, pureVars>>

\* runFMPScraper, steps 6 to 8 and the return
runFMPScraper ==
    /\ pc = "assemble"
    /\ result' = [companies |-> BuildCompanies(Fetched, validSymbols, RunStamp),
                  lastUpdated |-> RunStamp]
    /\ pc' = "returned"
    /\ UNCHANGED <<entry, only, request, outcome, response, file, blob, stageVars, updateVars>>
    /\ UNCHANGED <<fetchVars, pureVars>>

\* runPartialUpdate after its last fetch: the update loop of the category,
\* the re-stamping of every record and the return
runPartialUpdate ==
    /\ pc = "apply"
    /\ companyMap' =
          Restamp(ApplyUpdate(only, companyMap, Fetched, validSymbols, RunStamp),
                  RunStamp)
    /\ result' = [companies |-> companyMap', lastUpdated |-> RunStamp]
    /\ pc' = "returned"
    /\ UNCHANGED <<entry, only, request, outcome, response, file, blob, stageVars, existingData>>
    /\ UNCHANGED <<fetchVars, pureVars>>

\* main after the run returned: write data/companies.json, then upload when
\* BLOB_READ_WRITE_TOKEN is set
WriteSnapshot ==
    /\ pc = "returned"
    /\ entry = "main"
    /\ file' = JsonData(result)
    /\ \E BLOB_TOKEN \in BOOLEAN :
          IF BLOB_TOKEN
          THEN /\ pc' = "put"
               /\ UNCHANGED outcome
          ELSE /\ pc' = "done"
               /\ outcome' = "exit 0"
    /\ UNCHANGED <<entry, only, request, response, blob, stageVars, updateVars,
                   result>>
    /\ UNCHANGED <<fetchVars, pureVars>>

\* GET after the run returned: no companies is an error, else upload
CheckCompanies ==
    /\ pc = "returned"
    /\ entry = "GET"
    /\ IF Len(result.companies) = 0
       THEN Fail
       ELSE /\ pc' = "put"
            /\ UNCHANGED <<outcome, response>>
    /\ UNCHANGED <<entry, only, request, file, blob, stageVars, updateVars, result>>
    /\ UNCHANGED <<fetchVars, pureVars>>

\* await put("companies.json", ...): main logs a failed upload and goes on,
\* GET answers 500
put ==
    /\ pc = "put"
    /\ \/ /\ blob' = JsonData(result)
          /\ outcome' = IF entry = "main" THEN "exit 0" ELSE "200"
          /\ response' = IF entry = "main" THEN response ELSE SuccessBody
       \/ /\ UNCHANGED blob
          /\ outcome' = IF entry = "main" THEN "exit 0" ELSE "500"
          /\ response' = IF entry = "main" THEN response ELSE ErrorBody
    /\ pc' = "done"
    /\ UNCHANGED <<entry, only, request, file, stageVars, updateVars, result>>
    /\ UNCHANGED <<fetchVars, pureVars>>

-----------------------------------------------------------------------------
(* Idle halves of the state *)

\* the fetch client is idle in Spec, the invocation is idle in SpecFetch
IdleFetch ==
    /\ now = 0
    /\ rateLimitCooldownUntil = 0
    /\ concurrency = CONCURRENT_REQUESTS
    /\ symbols = <<>>
    /\ i = 0
    /\ bpc = "returned"
    /\ tasks = <<>>
    /\ results = NoMap
    /\ delayWake = 0
    /\ faults = 0
    /\ callNo = 0

NoLocals ==
    /\ screenerPages = <<>>
    /\ allSymbols = <<>>
    /\ validSymbols = <<>>
    /\ quotes = NoMap
    /\ profiles = NoMap
    /\ fxRates = NoMap
    /\ incomeStatements = NoMap
    /\ ratios = NoMap
    /\ growth = NoMap
    /\ estimates = NoMap
    /\ existingData = NoFile
    /\ companyMap = <<>>
    /\ result = NoResult

\* no pure function is called in SpecFetch and in Spec
IdlePure ==
    /\ fn = "none"
    /\ args = <<>>
    /\ out = <<>>

IdleRun ==
    /\ entry = "none"
    /\ only = "none"
    /\ pc = "done"
    /\ outcome = "none"
    /\ request = NoRequest
    /\ response = {}
    /\ file = NoFile
    /\ blob = NoFile
    /\ NoLocals

-----------------------------------------------------------------------------
(* SpecFetch *)

SymbolList == <<"AAA", "BBB", "CCC", "DDD">>

InitFetch ==
    /\ now = 0
    /\ rateLimitCooldownUntil = 0
    /\ \E n \in 1..MaxSymbols : symbols = SubSeq(SymbolList, 1, n)
    /\ concurrency \in 1..MaxConcurrency
    /\ concurrency <= Len(symbols)
    /\ i = 0
    /\ bpc = "start"
    /\ tasks = [p \in 1..Len(symbols) |-> TaskInit]
    /\ results = <<>>
    /\ delayWake = 0
    /\ faults = 0
    /\ callNo = 0
    /\ IdleRun
    /\ IdlePure

NextFetch ==
    \/ StartBatch
    \/ \E p \in DOMAIN tasks : CooldownWake(p)
    \/ \E p \in DOMAIN tasks : ResponseData(p)
    \/ \E p \in DOMAIN tasks : ResponseError(p)
    \/ \E p \in DOMAIN tasks : BackoffWake(p)
    \/ Collect
    \/ DelayWake

SpecFetch == InitFetch /\ [][NextFetch]_vars

-----------------------------------------------------------------------------
(* SpecRun: the six batch fetches of a full run, one after another *)

\* the batch fetches of runFMPScraper, in the order of its awaits
DataCategories == SelectSeq(Plan("none"), LAMBDA stage :
                      stage \notin {"stocks", "fx", "assemble"})

\* await processSymbolsBatch(...) returned and the next one is called: a new
\* result Map and new fetchWithRetry calls; the clock and the cooldown go
\* on.  The quote filter, after the first batch, keeps a part of the list in
\* its order (here: a prefix).
NextCategory ==
    /\ bpc = "returned"
    /\ callNo < Len(DataCategories)
    /\ callNo' = callNo + 1
    /\ IF DataCategories[callNo] = "quotes"
       THEN \E n \in 0..Len(symbols) : symbols' = SubSeq(symbols, 1, n)
       ELSE UNCHANGED symbols
    /\ i' = 0
    /\ bpc' = "start"
    /\ tasks' = [p \in 1..Len(symbols') |-> TaskInit]
    /\ results' = <<>>
    /\ UNCHANGED <<now, rateLimitCooldownUntil, concurrency, delayWake, faults>>
    /\ UNCHANGED <<dataVars, pureVars>>

NextRun ==
    \/ NextFetch
    \/ NextCategory

\* the first batch fetch of a full run is about to start
InitRun ==
    /\ now = 0
    /\ rateLimitCooldownUntil = 0
    /\ \E n \in 1..MaxRunSymbols : symbols = SubSeq(SymbolList, 1, n)
    /\ concurrency \in 1..MaxConcurrency
    /\ concurrency <= Len(symbols)
    /\ i = 0
    /\ bpc = "start"
    /\ tasks = [p \in 1..Len(symbols) |-> TaskInit]
    /\ results = <<>>
    /\ delayWake = 0
    /\ faults = 0
    /\ callNo = 1
    /\ IdleRun
    /\ IdlePure

SpecRun == InitRun /\ [][NextRun]_vars

-----------------------------------------------------------------------------
(* Spec *)

\* process.argv: no --only, --only <category>, or --only with another word
Arguments == Categories \cup {"none", "invalid"}

Init ==
    /\ IdleFetch
    /\ \/ /\ entry = "main"
          /\ only \in Arguments
          /\ request = NoRequest
       \/ /\ entry = "GET"
          /\ only = "none"
          /\ request \in Requests
    /\ pc = "start"
    /\ outcome = "running"
    /\ response = {}
    /\ file \in IF only = "none" THEN {GoodSeed} ELSE Seeds \cup {NoFile}
    /\ blob = file
    /\ NoLocals
    /\ IdlePure

Next ==
    \/ main
    \/ GET
    \/ fetchGlobalStocks
    \/ fetchBatchQuotes
    \/ fetchBatchProfiles
    \/ fetchFXRates
    \/ fetchQuarterlyIncome
    \/ fetchRatiosTTM
    \/ fetchFinancialGrowth
    \/ fetchAnalystEstimates
    \/ runFMPScraper
    \/ runPartialUpdate
    \/ WriteSnapshot
    \/ CheckCompanies
    \/ put

Spec == Init /\ [][Next]_vars

-----------------------------------------------------------------------------
(* SpecPure: one call of a pure function *)

\* amounts in a reporting currency: multiples of every rate below
Amounts == {150 * k : k \in (0 - MaxAmount)..MaxAmount}

CurrencyCodes == {"USD", "JPY", "EUR"}

\* the values an FX table can hold for a code: null, 0, and rates
TableRates == {Null, 0, 2, 150}

\* the Maps fetchFXRates can return
FXTables == UNION {[D -> TableRates] : D \in SUBSET CurrencyCodes}

\* the argument lists of toUSD
toUSDArgs ==
    [amount : Amounts, currency : CurrencyCodes \cup {"XXX"}, fxRates : FXTables]

\* the market caps of a record set: null, 0 and two values
MarketCaps == {Null, 0, 1000000000, 2000000000}

\* record sets that have not been ranked yet, reduced to the fields the
\* ranking reads and writes
UnrankedSets ==
    UNION {[1..n -> [symbol : Range(SymbolList), market_cap : MarketCaps,
                     rank : {Null}]] : n \in 0..MaxRecords}

\* the values of a companyMap: one record per symbol
UnrankedMaps ==
    {cs \in UnrankedSets :
        \A j, k \in DOMAIN cs : cs[j].symbol = cs[k].symbol => j = k}

\* fiscal year ends the analyst-estimates endpoint lists, and
\* new Date(date).getTime() of each, counted in quarters of a year
EstimateDates == {"2026-12-31", "2027-12-31", "2028-12-31"}

DateTime(date) ==
    CASE date = "2026-12-31" -> 4
      [] date = "2027-12-31" -> 8
      [] date = "2028-12-31" -> 12

\* threeMonthsFromNow, on the same scale: before, on, between and after the
\* dates
Thresholds == {3, 4, 5, 8, 11, 12, 13}

Estimates == [date : EstimateDates, epsAvg : {-300, 300, 600}]

\* response.data of the analyst-estimates request
EstimateLists == UNION {[1..n -> Estimates] : n \in 0..MaxEstimates}

\* fetchAnalystEstimates returned null
NoEstimate == [date |-> NullData, epsAvg |-> Null]

\* variant: later dates first
RECURSIVE InsertByDate_Descending(_, _)
InsertByDate_Descending(sorted, est) ==
    IF sorted = <<>> THEN <<est>>
    ELSE IF DateTime(Head(sorted).date) >= DateTime(est.date)
         THEN <<Head(sorted)>> \o InsertByDate_Descending(Tail(sorted), est)
         ELSE <<est>> \o sorted

\* [...response.data].sort((a, b) => time(a.date) - time(b.date)): ascending
\* and stable
RECURSIVE InsertByDate(_, _)
InsertByDate(sorted, est) ==
    IF sorted = <<>> THEN <<est>>
    ELSE IF DateTime(Head(sorted).date) <= DateTime(est.date)
         THEN <<Head(sorted)>> \o InsertByDate(Tail(sorted), est)
         ELSE <<est>> \o sorted

RECURSIVE SortByDate(_)
SortByDate(data) ==
    IF data = <<>> THEN <<>>
    ELSE InsertByDate(SortByDate(SubSeq(data, 1, Len(data) - 1)), data[Len(data)])

\* the body of fetchAnalystEstimates after the request: sorted.find(est =>
\* new Date(est.date) >= threeMonthsFromNow) || sorted[sorted.length - 1]
SelectEstimate(data, threeMonthsFromNow) ==
    LET sorted == SortByDate(data)
        found == {k \in DOMAIN sorted :
                     DateTime(sorted[k].date) >= threeMonthsFromNow}
    IN  IF Len(data) = 0 THEN NoEstimate
        ELSE IF found # {} THEN sorted[SetMin(found)]
        ELSE sorted[Len(sorted)]

\* the forward P/E runFMPScraper computes for a company that reports in USD
\* from the estimate selected for it
ForwardPEOf(estimate, price) ==
    LET f == [NothingFetched EXCEPT
                 !.estimates = IF estimate = NoEstimate THEN NoMap
                               ELSE [s \in {"AAA"} |-> estimate],
                 !.fxRates = FXRates]
    IN  ForwardPE(f, "AAA", "USD", price, Null)

fetchAnalystEstimatesArgs ==
    [data : EstimateLists, threeMonthsFromNow : Thresholds, price : {0, 600}]

InitPure ==
    /\ \/ /\ fn = "toUSD"
          /\ args \in toUSDArgs
       \/ /\ fn = "fetchAnalystEstimates"
          /\ args \in fetchAnalystEstimatesArgs
       \/ /\ fn \in {"RankInPlace", "RankAndReorder"}
          /\ args \in [companies : UnrankedMaps]
       \/ /\ fn = "fetchGlobalStocks"
          /\ args \in [server : ScreenerServers]
    /\ out = <<>>
    /\ IdleFetch
    /\ IdleRun

CallToUSD ==
    /\ fn = "toUSD"
    /\ out = <<>>
    /\ out' = <<toUSD(args.amount, args.currency, args.fxRates)>>
    /\ UNCHANGED <<fn, args>>
    /\ UNCHANGED <<fetchVars, dataVars>>

CallFetchGlobalStocks ==
    /\ fn = "fetchGlobalStocks"
    /\ out = <<>>
    /\ out' = <<GlobalStocks(args.server)>>
    /\ UNCHANGED <<fn, args>>
    /\ UNCHANGED <<fetchVars, dataVars>>

\* the sort-and-number step of the quotes update
CallRankInPlace ==
    /\ fn = "RankInPlace"
    /\ out = <<>>
    /\ out' = <<RankInPlace(args.companies)>>
    /\ UNCHANGED <<fn, args>>
    /\ UNCHANGED <<fetchVars, dataVars>>

\* the sort-and-number step of the full run and of new_symbols
CallRankAndReorder ==
    /\ fn = "RankAndReorder"
    /\ out = <<>>
    /\ out' = <<RankAndReorder(args.companies)>>
    /\ UNCHANGED <<fn, args>>
    /\ UNCHANGED <<fetchVars, dataVars>>

\* fetchAnalystEstimates, and the forward P/E of the record built from it
CallFetchAnalystEstimates ==
    /\ fn = "fetchAnalystEstimates"
    /\ out = <<>>
    /\ out' = <<[estimate |-> SelectEstimate(args.data, args.threeMonthsFromNow),
                 forwardPE |->
                     ForwardPEOf(SelectEstimate(args.data, args.threeMonthsFromNow),
                                 args.price)]>>
    /\ UNCHANGED <<fn, args>>
    /\ UNCHANGED <<fetchVars, dataVars>>

NextPure ==
    \/ CallToUSD
    \/ CallFetchAnalystEstimates
    \/ CallRankInPlace
    \/ CallRankAndReorder
    \/ CallFetchGlobalStocks

SpecPure == InitPure /\ [][NextPure]_vars



-----------------------------------------------------------------------------
(* Claims about the fetch client and the batch processor (SpecFetch) *)

FailedWith(p) == tasks[p].last \in Errors

\* C2: processSymbolsBatch never aborts on a per-symbol failure: no
\* fetchWithRetry call throws, the batch is never aborted, and when the batch
\* returns every position of the list has been attempted and the result map
\* holds exactly the symbols whose call ended with a non-empty payload.
C2_BatchAbsorbsFailures ==
    /\ \A p \in DOMAIN tasks : tasks[p].pc # "thrown"
    /\ bpc # "aborted"
    /\ bpc = "returned" =>
          /\ \A p \in DOMAIN tasks : tasks[p].pc = "collected"
          /\ DOMAIN results =
                {symbols[p] : p \in {q \in DOMAIN tasks : tasks[q].data # NullData}}
          /\ \A p \in DOMAIN tasks :
                tasks[p].data # NullData => results[symbols[p]] = tasks[p].data

C2_Witness ==
    /\ bpc = "returned"
    /\ Len(symbols) = 3
    /\ faults >= 3
    /\ tasks[1].data = NullData
    /\ tasks[2].data # NullData
    /\ tasks[3].data = NullData
    /\ rateLimitCooldownUntil > 0

C8_RecoversWithinRetryCeiling ==
    /\ \A p \in DOMAIN tasks :
          /\ (tasks[p].pc = "returned" /\ tasks[p].data = NullData) =>
                \/ tasks[p].last = Resolved
                \/ FailedWith(p) /\ ~isTransientError(tasks[p].last)
                \/ FailedWith(p) /\ tasks[p].requests = maxRetries
          /\ (FailedWith(p) /\ isTransientError(tasks[p].last)
                 /\ tasks[p].requests <= maxRetries - 1) =>
                tasks[p].pc = "backoff"
          /\ tasks[p].pc \in {"inflight", "backoff"} =>
                tasks[p].requests = tasks[p].attempt + 1
          /\ tasks[p].pc = "cooldown" => tasks[p].requests = tasks[p].attempt
    /\ bpc = "returned" =>
          \A p \in DOMAIN tasks :
              tasks[p].data # NullData => symbols[p] \in DOMAIN results

\* four transient failures, each followed by its backoff sleep, then the
\* payload on the fifth request, while a 429 of the run has set the cooldown
C8_Witness ==
    \E p \in DOMAIN tasks :
        /\ tasks[p].pc = "returned"
        /\ rateLimitCooldownUntil > 0
        /\ tasks[p].backoffs = maxRetries - 1
        /\ tasks[p].requests = maxRetries
        /\ tasks[p].last = Resolved
        /\ tasks[p].data = "payload"

\* C9: fetchWithRetry always terminates: it issues at most maxRetries
\* requests; when the last of them fails it returns null data without another
\* sleep and without raising; and until the batch returns there is always a
\* timer or a response to wait for, or a settled batch to collect.
C9_BoundedRetries ==
    /\ \A p \in DOMAIN tasks :
          /\ tasks[p].requests <= maxRetries
          /\ tasks[p].backoffs <= maxRetries - 1
          /\ tasks[p].pc # "thrown"
          /\ (tasks[p].requests = maxRetries /\ FailedWith(p)) =>
                /\ tasks[p].pc = "returned"
                /\ tasks[p].data = NullData
                /\ tasks[p].backoffs = maxRetries - 1
    /\ \/ bpc \in {"start", "returned"}
       \/ PendingWakes # {}
       \/ \A p \in BatchOf(i) : tasks[p].pc = "returned"

C9_Witness ==
    \E p \in DOMAIN tasks :
        /\ tasks[p].pc = "returned"
        /\ tasks[p].requests = maxRetries
        /\ FailedWith(p)
        /\ isTransientError(tasks[p].last)
        /\ tasks[p].data = NullData

\* C10: a permanent per-symbol fault is skipped immediately: the step in which
\* a request fails with an error that isTransientError rejects returns null
\* data, issues no request, starts no backoff sleep and leaves the global
\* cooldown unchanged.
C10_PermanentFaultStep(p) ==
    (/\ tasks[p].pc = "inflight"
     /\ tasks'[p].last \in Errors
     /\ \/ tasks'[p].last = HTTP404
        \/ ~isTransientError(tasks'[p].last)) =>
        /\ tasks'[p].pc = "returned"
        /\ tasks'[p].data = NullData
        /\ tasks'[p].requests = tasks[p].requests
        /\ tasks'[p].backoffs = tasks[p].backoffs
        /\ rateLimitCooldownUntil' = rateLimitCooldownUntil

C10_PermanentFaultSkipped ==
    [][\A p \in DOMAIN tasks : C10_PermanentFaultStep(p)]_vars

\* a 404 on the first attempt while a cooldown set by another symbol exists
C10_Witness ==
    \E p \in DOMAIN tasks :
        /\ tasks[p].pc = "returned"
        /\ tasks[p].last = HTTP404
        /\ tasks[p].requests = 1
        /\ tasks[p].backoffs = 0
        /\ rateLimitCooldownUntil > 0


\* the fetchWithRetry calls that have been made and have not returned
Running == {p \in DOMAIN tasks : tasks[p].pc \in {"cooldown", "inflight", "backoff"}}

\* the calls that have been made
Started == {p \in DOMAIN tasks : tasks[p].pc # "pending"}

\* C24: within one run of processSymbolsBatch the symbols are started in the
\* order of the input list, a batch at a time: the calls made so far are
\* those of a prefix of the list, every call before the current batch has
\* ended and was collected, and so at most as many calls as the concurrency
\* factor are running and at most as many requests are in flight.  With the
\* factor 1 a symbol's first request is issued only when the call of the
\* symbol before it has ended, retries included.
C24_StartedInOrderWithinFactor ==
    /\ \A p, q \in DOMAIN tasks : (p < q /\ q \in Started) => p \in Started
    /\ \A p \in DOMAIN tasks : p <= i => tasks[p].pc = "collected"
    /\ Running \subseteq BatchOf(i)
    /\ Cardinality(Running) <= concurrency
    /\ Cardinality({p \in DOMAIN tasks : tasks[p].pc = "inflight"}) <= concurrency
    /\ concurrency = 1 =>
          \A p \in Started : \A q \in 1..(p - 1) : tasks[q].pc = "collected"

\* factor 1, three symbols: the first has ended, the second sleeps its
\* backoff after a failed request, the third has not been started
C24_Witness ==
    /\ concurrency = 1
    /\ Len(symbols) = 3
    /\ tasks[1].pc = "collected"
    /\ tasks[2].pc = "backoff"
    /\ tasks[2].requests = 1
    /\ tasks[3].pc = "pending"


\* this step issues a request: a call goes from its loop head, its cooldown
\* sleep or its backoff sleep into fetchFn
Issues(p) == tasks[p].pc # "inflight" /\ tasks'[p].pc = "inflight"

\* C25: with the concurrency factor 1 any two consecutive requests of one
\* run of processSymbolsBatch are at least REQUEST_DELAY_MS apart.  The clock
\* of a state is the time of the last thing that happened, with factor 1 the
\* end of the request before; a step that issues a request, other than the
\* first of the run, happens at least REQUEST_DELAY_MS later: after the
\* fixed delay between two symbols, after a backoff at least as long
\* between two attempts for one symbol.
C25_RequestsSpacedByDelay ==
    [][(concurrency = 1 /\ bpc # "start") =>
          \A p \in DOMAIN tasks :
              Issues(p) =>
                 /\ now' - now >= REQUEST_DELAY_MS
                 /\ tasks[p].pc = "pending" => now' - now = REQUEST_DELAY_MS
                 /\ tasks[p].pc = "backoff" =>
                       /\ now' - now = backoffMs(tasks[p].attempt)
                       /\ backoffMs(tasks[p].attempt) >= REQUEST_DELAY_MS]_vars

\* factor 1: the second symbol, started after the fixed delay, is in its
\* second request, issued after the backoff of the first
C25_Witness ==
    /\ concurrency = 1
    /\ Len(symbols) >= 2
    /\ tasks[1].pc = "collected"
    /\ tasks[2].pc = "inflight"
    /\ tasks[2].attempt = 1
    /\ tasks[2].requests = 2


\* this step is the catch block of call p: its request failed
Caught(p) == tasks[p].pc = "inflight" /\ tasks'[p].last \in Errors

\* C26: retries after HTTP 5xx or after transient network errors are
\* independent of the global cooldown: the catch block leaves the cooldown
\* timestamp as it was unless the error is an HTTP 429 that is retried, and
\* then it writes the time of the catch plus min(1000 * 2^attempt, 30000) ms,
\* the backoff the call itself sleeps, twice that of the attempt before or
\* the ceiling; no other step writes the timestamp.
C26_OnlyRetried429WritesCooldown ==
    [][/\ \A p \in DOMAIN tasks :
             Caught(p) =>
                LET error == tasks'[p].last
                    a == tasks[p].attempt
                    wait == rateLimitCooldownUntil' - now'
                IN  IF error.status = 429 /\ tasks'[p].pc = "backoff"
                    THEN /\ wait = Min(1000 * Pow2(a), 30000)
                         /\ wait <= 30000
                         /\ a > 0 => \/ wait = 2 * Min(1000 * Pow2(a - 1), 30000)
                                     \/ wait = 30000
                         /\ tasks'[p].wake = rateLimitCooldownUntil'
                    ELSE rateLimitCooldownUntil' = rateLimitCooldownUntil
       /\ (\A p \in DOMAIN tasks : ~Caught(p)) =>
             rateLimitCooldownUntil' = rateLimitCooldownUntil]_vars

\* a call whose first request met a 429 and whose second met a 500 sleeps
\* its second backoff; the cooldown is still the one the 429 wrote, and past
C26_Witness ==
    \E p \in DOMAIN tasks :
        /\ tasks[p].pc = "backoff"
        /\ tasks[p].last = HTTP500
        /\ tasks[p].attempt = 1
        /\ rateLimitCooldownUntil > 0
        /\ rateLimitCooldownUntil < now
        /\ tasks[p].wake = now + 2000


\* this step runs the cooldown check of call p: the head of the loop body,
\* at the start of the call or after a backoff sleep
Checks(p) ==
    /\ tasks[p].pc \in {"pending", "backoff"}
    /\ tasks'[p].pc \in {"cooldown", "inflight"}

\* C30: with the concurrency factor 1 the global cooldown is never active
\* when an attempt starts: at every cooldown check the timestamp is at most
\* the time of the check, so no call ever sleeps in the cooldown wait and no
\* request is issued before the timestamp; and the timestamp never
\* decreases.
C30_CooldownNeverActiveAtFactorOne ==
    /\ [](concurrency = 1 =>
             \A p \in DOMAIN tasks : tasks[p].pc # "cooldown" /\ ~tasks[p].early)
    /\ [][concurrency = 1 =>
             /\ \A p \in DOMAIN tasks :
                   Checks(p) => /\ rateLimitCooldownUntil' <= now'
                                /\ tasks'[p].pc = "inflight"
             /\ rateLimitCooldownUntil' >= rateLimitCooldownUntil]_vars

\* factor 1: the third request of a call leaves at the very time the
\* cooldown of its second 429 ends
C30_Witness ==
    /\ concurrency = 1
    /\ \E p \in DOMAIN tasks :
          /\ tasks[p].pc = "inflight"
          /\ tasks[p].attempt = 2
          /\ tasks[p].requests = 3
    /\ rateLimitCooldownUntil > 0
    /\ rateLimitCooldownUntil = now

-----------------------------------------------------------------------------
(* Claims about one invocation of the scraper (Spec) *)

\* the run has returned { companies, lastUpdated }
Returned == result # NoResult

InResult(symbol) == \E k \in DOMAIN result.companies : result.companies[k].symbol = symbol

Reranked ==
    /\ Returned
    /\ \/ only \in {"none", "quotes"}
       \/ only = "new_symbols" /\ NewSymbols(existingData.companies) # <<>>

RanksAreDense(cs) == {cs[k].rank : k \in DOMAIN cs} = 1..Len(cs)

\* C3 as the specification states it: after a full run, a quotes update or
\* a new_symbols update the ranks are exactly 1..N and marketCap is strictly
\* decreasing as rank increases.
C3_RanksDenseStrictlyDecreasing ==
    (Returned /\ only \in {"none", "quotes", "new_symbols"}) =>
        /\ RanksAreDense(result.companies)
        /\ \A a, b \in Range(result.companies) :
              a.rank < b.rank => OrZero(a.market_cap) > OrZero(b.market_cap)

\* C3, amended: after a full run, a quotes update, or a new_symbols update
\* that found a supplemental symbol to add, the ranks of the N returned
\* records are exactly 1..N and market cap (null counted as 0) does not
\* increase as rank increases; a new_symbols update that finds nothing to
\* add returns the loaded records as they are.
C3_RanksDenseNonIncreasing ==
    /\ Reranked =>
          /\ RanksAreDense(result.companies)
          /\ \A a, b \in Range(result.companies) :
                a.rank < b.rank => OrZero(a.market_cap) >= OrZero(b.market_cap)
    /\ (Returned /\ only = "new_symbols" /\ ~Reranked) =>
          result.companies = existingData.companies

\* a quotes update that left two companies with the same market cap and
\* different ranks, and one with a larger market cap ahead of another
C3_Witness ==
    /\ Returned
    /\ only = "quotes"
    /\ existingData.companies # result.companies
    /\ \E a, b \in Range(result.companies) :
          /\ a.symbol # b.symbol
          /\ a.market_cap = b.market_cap
          /\ a.rank + 1 = b.rank

\* C4 as the specification states it: when zero companies survive the run,
\* the invocation fails and writes neither the snapshot file nor the blob.
C4_EmptyRunWritesNothing ==
    [][(result' # NoResult /\ Len(result'.companies) = 0) =>
          /\ file' = file
          /\ blob' = blob
          /\ outcome' \notin {"exit 0", "200"}]_vars

\* the last loaded record of a symbol
LoadedRecord(symbol) ==
    LET cs == existingData.companies
        last == CHOOSE k \in DOMAIN cs :
                    /\ cs[k].symbol = symbol
                    /\ \A j \in DOMAIN cs : cs[j].symbol = symbol => j <= k
    IN  cs[last]

SameExcept(a, b, fields) == \A field \in DOMAIN a \ fields : a[field] = b[field]

\* none of this run's result Maps has an entry for the symbol
NothingFetchedFor(symbol) ==
    symbol \notin DOMAIN quotes \cup DOMAIN profiles \cup DOMAIN incomeStatements
                  \cup DOMAIN ratios \cup DOMAIN growth \cup DOMAIN estimates

OwnedFields(category) ==
    CASE category = "week_52_high" -> {"week_52_high"}
      [] category = "growth" ->
             {"revenue_growth_5y", "revenue_growth_3y", "eps_growth_5y", "eps_growth_3y"}
      [] category = "pe_ratio" -> {"pe_ratio", "ttm_eps"}
      [] category = "forward_pe" -> {"forward_eps", "forward_eps_date", "forward_pe"}
      [] category = "quotes" ->
             {"price", "market_cap", "week_52_high", "daily_change_percent", "rank"}
      [] category = "financials" ->
             {"revenue", "operating_margin", "earnings", "pe_ratio",
              "dividend_percent", "ttm_eps"}

\* C6: an update of one of these six categories returns, for every record,
\* the loaded record changed at most in the fields the category owns and in
\* last_updated.
C6_OnlyOwnedFieldsChange ==
    (Returned /\ only \in Categories \ {"new_symbols", "currency_fix"}) =>
        \A k \in DOMAIN result.companies :
            /\ \E e \in Range(existingData.companies) :
                  e.symbol = result.companies[k].symbol
            /\ SameExcept(result.companies[k],
                          LoadedRecord(result.companies[k].symbol),
                          OwnedFields(only) \cup {"last_updated"})

\* a financials update that changed revenue, earnings and the dividend of a
\* record
C6_Witness ==
    /\ Returned
    /\ only = "financials"
    /\ \E k \in DOMAIN result.companies :
          LET new == result.companies[k]
              old == LoadedRecord(new.symbol)
          IN  /\ new.revenue # old.revenue
              /\ new.earnings # old.earnings
              /\ new.dividend_percent # old.dividend_percent
              /\ new.last_updated # old.last_updated

\* C11 as the specification states it: in every returned snapshot no two
\* records have the same symbol, whatever the screener returned.
C11_SymbolUnique ==
    Returned =>
        \A j, k \in DOMAIN result.companies :
            result.companies[j].symbol = result.companies[k].symbol => j = k

\* the positions of the records of a symbol in the returned snapshot
RecordsOf(symbol) ==
    {k \in DOMAIN result.companies : result.companies[k].symbol = symbol}

\* a quote at or above the floor of the full run was retrieved for the symbol
HasValidQuote(symbol) ==
    symbol \in DOMAIN quotes /\ quotes[symbol].marketCap >= 1000000000

\* the fields of record c that derive from a resource this run did not
\* retrieve for its symbol are null (name and country fall back to the
\* quote's name and to "US")
MissingFieldsNull(c) ==
    LET s == c.symbol
    IN  /\ s \notin DOMAIN incomeStatements =>
              c.revenue = Null /\ c.earnings = Null /\ c.operating_margin = Null
        /\ s \notin DOMAIN ratios =>
              c.pe_ratio = Null /\ c.ttm_eps = Null /\ c.dividend_percent = Null
        /\ s \notin DOMAIN growth =>
              /\ c.revenue_growth_5y = Null /\ c.revenue_growth_3y = Null
              /\ c.eps_growth_5y = Null /\ c.eps_growth_3y = Null
        /\ s \notin DOMAIN estimates =>
              /\ c.forward_eps = Null /\ c.forward_pe = Null
              /\ c.forward_eps_date = NullData
        /\ s \notin DOMAIN profiles =>
              c.name = quotes[s].name /\ c.country = "US"

\* the fields of record c that derive from a retrieved resource carry a
\* value wherever the resource has one
RetrievedFieldsPopulated(c) ==
    LET s == c.symbol
    IN  /\ c.market_cap = quotes[s].marketCap
        /\ c.price = quotes[s].price
        /\ c.daily_change_percent = quotes[s].changePercentage
        /\ s \in DOMAIN profiles =>
              c.name = profiles[s].companyName /\ c.country = profiles[s].country
        /\ s \in DOMAIN ratios =>
              /\ c.pe_ratio = ratios[s].priceToEarningsRatioTTM
              /\ c.dividend_percent = ratios[s].dividendYieldTTM
        /\ s \in DOMAIN growth =>
              /\ c.revenue_growth_5y # Null
              /\ c.revenue_growth_3y # Null
              /\ c.eps_growth_5y # Null
        /\ s \in DOMAIN estimates =>
              c.forward_eps # Null /\ c.forward_eps_date = estimates[s].date
        /\ s \in DOMAIN incomeStatements =>
              /\ c.earnings # Null
              /\ SumField(incomeStatements[s].statements, "revenue") > 0 =>
                    c.revenue # Null /\ c.operating_margin # Null

\* C12 as the specification states it: in a full run a symbol with a valid
\* quote has exactly one record, whatever other fetch failed for it; the
\* fields of a resource that was not retrieved are null and the fields of
\* the resources that were retrieved are populated.
C12_PartialResourceRecord ==
    (only = "none" /\ Returned) =>
        \A s \in Range(allSymbols) :
            HasValidQuote(s) =>
                /\ Cardinality(RecordsOf(s)) = 1
                /\ \A k \in RecordsOf(s) :
                      /\ MissingFieldsNull(result.companies[k])
                      /\ RetrievedFieldsPopulated(result.companies[k])

\* C13 as the specification states it: in a full run and in a financials
\* update, a record whose symbol had an income statement of at least one
\* entry retrieved carries as earnings the normalized sum of netIncome, also
\* when the sum is zero or negative; in a full run earnings is null only
\* when no income statement was retrieved.
C13_EarningsHasNoFloor ==
    (Returned /\ only \in {"none", "financials"}) =>
        \A k \in DOMAIN result.companies :
            LET c == result.companies[k]
                s == c.symbol
            IN  IF HasStatements(Fetched, s)
                THEN c.earnings =
                         toUSD(SumField(incomeStatements[s].statements, "netIncome"),
                               incomeStatements[s].reportedCurrency, fxRates)
                ELSE only = "none" => c.earnings = Null

\* the income statement retrieved for the symbol reports in USD
ReportsUSD(symbol) ==
    symbol \in DOMAIN incomeStatements
    /\ incomeStatements[symbol].reportedCurrency = "USD"

MonetaryFields ==
    {"revenue", "earnings", "operating_margin", "forward_eps",
     "forward_eps_date", "forward_pe"}

\* C14: in a currency_fix update a company whose income statement reports
\* USD keeps its revenue, earnings, operating_margin, forward_eps,
\* forward_eps_date and forward_pe, and its turn of the loop adds one to the
\* skipped counter and nothing to the updated counter.
C14_CurrencyFixSkipsUSD ==
    (Returned /\ only = "currency_fix") =>
        LET map == ToCompanyMap(existingData.companies)
        IN  \A k \in DOMAIN map :
                ReportsUSD(map[k].symbol) =>
                    LET before == CurrencyFixCounts(SubSeq(map, 1, k - 1), Fetched)
                        after == CurrencyFixCounts(SubSeq(map, 1, k), Fetched)
                    IN  /\ result.companies[k].symbol = map[k].symbol
                        /\ \A field \in MonetaryFields :
                              result.companies[k][field] = map[k][field]
                        /\ after.skippedUSD = before.skippedUSD + 1
                        /\ after.updated = before.updated

\* a currency_fix update that skipped a company reporting in USD, for which
\* a new estimate had been retrieved, and converted another company
C14_Witness ==
    /\ Returned
    /\ only = "currency_fix"
    /\ \E a, b \in Range(result.companies) :
          /\ ReportsUSD(a.symbol)
          /\ a.symbol \in DOMAIN estimates
          /\ a.forward_eps_date # estimates[a.symbol].date
          /\ ~ReportsUSD(b.symbol)
          /\ b.symbol \in DOMAIN incomeStatements
          /\ b.symbol \in DOMAIN estimates
          /\ b.forward_eps_date = estimates[b.symbol].date
          /\ CurrencyFixCounts(ToCompanyMap(existingData.companies), Fetched)
                = [updated |-> 1, skippedUSD |-> 1]

\* a new_symbols update that found every supplemental symbol in the loaded
\* snapshot and returned early
NothingToAdd ==
    only = "new_symbols" /\ NewSymbols(existingData.companies) = <<>>

\* C15 as the specification states it: every partial update returns a
\* snapshot all of whose records carry the timestamp of this run, which is
\* also the returned lastUpdated.
C15_EveryUpdateRestamps ==
    (Returned /\ only \in Categories) =>
        /\ result.lastUpdated = RunStamp
        /\ \A k \in DOMAIN result.companies :
              result.companies[k].last_updated = result.lastUpdated

\* C15, amended: a partial update that does not return early re-stamps
\* every record of the returned snapshot, touched or not, with the timestamp
\* of this run, which is the returned lastUpdated; a new_symbols update that
\* finds no supplemental symbol to add returns the loaded records and the
\* loaded lastUpdated, with the timestamps they had.
C15_RestampsUnlessNothingToAdd ==
    /\ (Returned /\ only \in Categories /\ ~NothingToAdd) =>
          /\ result.lastUpdated = RunStamp
          /\ \A k \in DOMAIN result.companies :
                result.companies[k].last_updated = RunStamp
    /\ (Returned /\ NothingToAdd) =>
          /\ result.lastUpdated = existingData.lastUpdated
          /\ \A k \in DOMAIN result.companies :
                result.companies[k].last_updated =
                    existingData.companies[k].last_updated

\* a pe_ratio update of two companies that fetched nothing for the second
\* and stamped it all the same
C15_Witness ==
    /\ Returned
    /\ only = "pe_ratio"
    /\ Len(result.companies) = 2
    /\ NothingFetchedFor(result.companies[2].symbol)
    /\ existingData.companies[2].last_updated = SeedStamp
    /\ result.companies[2].last_updated = RunStamp
    /\ SameExcept(result.companies[2], existingData.companies[2], {"last_updated"})

\* the categories that cannot change market cap
FieldCategories ==
    {"forward_pe", "week_52_high", "financials", "growth", "pe_ratio",
     "currency_fix"}

\* C16 as the specification states it: an update of a category that cannot
\* change market cap returns every record at the position and with the rank
\* it has in the loaded snapshot.
C16_RankAndPositionKept ==
    (Returned /\ only \in FieldCategories) =>
        /\ Len(result.companies) = Len(existingData.companies)
        /\ \A k \in DOMAIN result.companies :
              /\ result.companies[k].symbol = existingData.companies[k].symbol
              /\ result.companies[k].rank = existingData.companies[k].rank

\* the company-screener answered and listed no symbol at all
ScreenerEmpty ==
    /\ screenerPages # <<>>
    /\ \A k \in DOMAIN screenerPages : screenerPages[k] = <<>>

\* C18: an empty screener result is fatal for a full run: once the screener
\* has answered with no symbol, the invocation is over with a failure, has
\* no symbol list, has run no per-symbol stage, has no result, and the
\* snapshot file and the blob are the ones it started from; a full run past
\* fetchGlobalStocks has a symbol of the screener, never zero symbols or the
\* supplemental list alone.
C18_EmptyUniverseIsFatal ==
    /\ ScreenerEmpty =>
          /\ pc = "done"
          /\ outcome = Failure
          /\ allSymbols = <<>>
          /\ Fetched = NothingFetched
          /\ result = NoResult
          /\ file = GoodSeed
          /\ blob = GoodSeed
    /\ (only = "none" /\ pc \notin {"start", "stocks", "done"}) =>
          /\ \E k \in DOMAIN screenerPages : screenerPages[k] # <<>>
          /\ allSymbols # <<>>

\* a full run of the CLI whose screener request returned an empty page, and
\* that exited with 1 leaving the snapshot as it was
C18_Witness ==
    /\ entry = "main"
    /\ only = "none"
    /\ screenerPages = << <<>> >>
    /\ pc = "done"
    /\ outcome = "exit 1"
    /\ file = GoodSeed
    /\ blob = GoodSeed

\* C20: the route runs the scraper only for an authorized caller.  A request
\* whose token differs from SCRAPER_SECRET (a missing token included) is
\* answered 401 at once: the scraper's first request is never made, there is
\* no result and the blob is the one the invocation started from.  An
\* authorized request that ends without companies (the scraper threw, or
\* returned none) is answered 500, and every 500 carries an error message
\* and a duration and leaves the blob as it was.
C20_ScrapeRouteNeedsToken ==
    entry = "GET" =>
        /\ request.token # request.secret =>
              /\ pc \in {"start", "done"}
              /\ pc = "done" => (outcome = "401" /\ response = {"error"})
              /\ screenerPages = <<>>
              /\ allSymbols = <<>>
              /\ Fetched = NothingFetched
              /\ result = NoResult
              /\ blob = GoodSeed
        /\ (request.token = request.secret /\ pc = "done") =>
              /\ outcome \in {"200", "500"}
              /\ Len(result.companies) = 0 => outcome = "500"
              /\ outcome = "500" =>
                    (response = {"error", "duration"} /\ blob = GoodSeed)
              /\ outcome = "200" => blob = JsonData(result)

\* a request without a token, with SCRAPER_SECRET set, was answered 401 with
\* an error body; nothing was fetched and the blob is untouched
C20_Witness ==
    /\ entry = "GET"
    /\ pc = "done"
    /\ request.token = NullData
    /\ request.secret = "s3cret"
    /\ outcome = "401"
    /\ response = {"error"}
    /\ screenerPages = <<>>
    /\ blob = GoodSeed

\* the symbols of the loaded snapshot
LoadedSymbols == {existingData.companies[k].symbol : k \in DOMAIN existingData.companies}

\* the symbols this run asked an endpoint about
FetchedSymbols ==
    DOMAIN quotes \cup DOMAIN profiles \cup DOMAIN incomeStatements
                  \cup DOMAIN ratios \cup DOMAIN growth \cup DOMAIN estimates

\* new_symbols fetches only supplemental symbols the snapshot does not hold,
\* creates their records with rank null and returns no record of rank null:
\* when there was a symbol to fetch, the merged set is numbered from 1
NewSymbolsMergedAndRanked ==
    /\ Range(allSymbols) \subseteq Range(SUPPLEMENTAL_SYMBOLS) \ LoadedSymbols
    /\ FetchedSymbols \subseteq Range(allSymbols)
    /\ LET merged == AddNewCompanies(ToCompanyMap(existingData.companies),
                                     Fetched, validSymbols, RunStamp)
       IN  /\ \A s \in Range(validSymbols) : merged[PositionOf(merged, s)].rank = Null
           /\ \A s \in Range(validSymbols) : InResult(s)
    /\ \A s \in LoadedSymbols : InResult(s)
    /\ \A k \in DOMAIN result.companies :
          /\ result.companies[k].rank # Null
          /\ result.companies[k].symbol \in LoadedSymbols \cup Range(validSymbols)
    /\ ~NothingToAdd => \A k \in DOMAIN result.companies : result.companies[k].rank = k

\* C28 as the specification states it: new_symbols fetches only supplemental
\* symbols that the snapshot does not hold, leaves every field but rank of
\* the existing records unchanged and re-ranks the merged set, so that no
\* returned record has rank null although the new ones are created with it.
C28_NewSymbolsKeepsAllButRank ==
    (Returned /\ only = "new_symbols") =>
        /\ NewSymbolsMergedAndRanked
        /\ \A k \in DOMAIN result.companies :
              result.companies[k].symbol \in LoadedSymbols =>
                 SameExcept(LoadedRecord(result.companies[k].symbol),
                            result.companies[k], {"rank"})

\* C28, amended: the existing records keep every field but rank and
\* last_updated; the rest as stated.
C28_NewSymbolsKeepsAllButRankAndStamp ==
    (Returned /\ only = "new_symbols") =>
        /\ NewSymbolsMergedAndRanked
        /\ \A k \in DOMAIN result.companies :
              result.companies[k].symbol \in LoadedSymbols =>
                 SameExcept(LoadedRecord(result.companies[k].symbol),
                            result.companies[k], {"rank", "last_updated"})

\* new_symbols on a snapshot of AAA alone: TCEHY was fetched, merged with
\* the larger market cap and ranked 1; AAA went from rank 1 to rank 2
C28_Witness ==
    /\ Returned
    /\ only = "new_symbols"
    /\ LoadedSymbols = {"AAA"}
    /\ LoadedRecord("AAA").rank = 1
    /\ Len(result.companies) = 2
    /\ result.companies[1].symbol = "TCEHY"
    /\ result.companies[1].rank = 1
    /\ result.companies[2].symbol = "AAA"
    /\ result.companies[2].rank = 2

\* C29: after every run that assigns ranks (a full run, a quotes update, a
\* new_symbols update that had a symbol to add) the companies array of the
\* returned snapshot is in ascending order of rank: the record at position
\* k (counted from 1) has rank k.
C29_ArrayOrderedByRank ==
    Reranked => \A k \in DOMAIN result.companies : result.companies[k].rank = k

\* the runs that convert currencies
ConvertingRuns == {"none", "financials", "forward_pe", "currency_fix", "new_symbols"}

\* the symbols whose records this run wrote converted amounts into
Converted ==
    {s \in StageSymbols("income") :
        /\ Has(incomeStatements, s)
        /\ incomeStatements[s].reportedCurrency # "USD"
        /\ Has(fxRates, incomeStatements[s].reportedCurrency)}

\* a run converted with the table it holds: the amounts of the records it
\* returned, times the rate of that table, are the amounts reported
ConvertedWithTable ==
    \A k \in DOMAIN result.companies :
        LET c == result.companies[k]
            s == c.symbol
            rate == fxRates[incomeStatements[s].reportedCurrency]
            stmts == incomeStatements[s].statements
        IN  s \in Converted =>
              /\ (only # "forward_pe" /\ SumField(stmts, "revenue") > 0) =>
                    c.revenue * rate = SumField(stmts, "revenue")
              /\ (only # "forward_pe" /\ SumField(stmts, "netIncome") # 0) =>
                    c.earnings * rate = SumField(stmts, "netIncome")
              /\ (only # "financials" /\ HasEstimate(Fetched, s)) =>
                    c.forward_eps * rate = estimates[s].epsAvg

\* C23: the FX rate table is fetched once per run, before the first
\* conversion, and never modified: a full run and a financials, forward_pe,
\* currency_fix or new_symbols update holds a fetched table when it starts
\* to convert, the table it holds never changes once fetched, and every
\* amount it converted was converted with that table.
C23_OneTablePerRun ==
    /\ [][fxRates # NoMap => fxRates' = fxRates]_vars
    /\ []((only \in ConvertingRuns /\ pc \in {"assemble", "apply"}) =>
             fxRates \in FXRateTables)
    /\ []((only \in ConvertingRuns /\ pc = "returned" /\ fxRates # NoMap) =>
             ConvertedWithTable)

\* a financials update fetched the table of the later day and returned a
\* record whose revenue and earnings were both converted at its yen rate
C23_Witness ==
    /\ only = "financials"
    /\ pc = "returned"
    /\ fxRates = FXRatesMoved
    /\ \E k \in DOMAIN result.companies :
          /\ result.companies[k].symbol \in Converted
          /\ result.companies[k].revenue = 12
          /\ result.companies[k].earnings = 2

-----------------------------------------------------------------------------
(* Claims about the six batch fetches of a full run (SpecRun) *)

\* every fetchWithRetry call of the current batch fetch has ended and its
\* result was read: no request is in flight and no sleep is pending
EverySymbolEnded ==
    /\ DOMAIN tasks = DOMAIN symbols
    /\ \A p \in DOMAIN tasks : tasks[p].pc = "collected"
    /\ PendingWakes = {}

\* C22: the six data categories of a full run are fetched strictly one after
\* another, in the order quotes, profiles, income statements, ratios, growth,
\* estimates: the batch fetch of a category starts only when every symbol of
\* the category before it has ended, all its retries and backoff sleeps
\* included, and it is the next category of that order.
C22_CategoriesRunInSequence ==
    [][callNo' # callNo =>
          /\ DataCategories = <<"quotes", "profiles", "income", "ratios",
                                "growth", "estimates">>
          /\ callNo' = callNo + 1
          /\ EverySymbolEnded
          /\ \A p \in DOMAIN tasks' : tasks'[p].pc = "pending"]_vars

\* the estimates of the second symbol are being requested after a request
\* of an earlier category had failed and was retried
C22_Witness ==
    /\ callNo = 6
    /\ DataCategories[callNo] = "estimates"
    /\ Len(symbols) = 2
    /\ tasks[1].pc = "collected"
    /\ tasks[2].pc = "inflight"
    /\ tasks[2].requests = 1
    /\ faults = MaxRunFaults

-----------------------------------------------------------------------------
(* Claims about single functions (SpecPure) *)

\* C17: toUSD returns the amount itself when the code is "USD", whatever the
\* table holds for USD; the amount itself when the table has no entry for
\* the code or holds null or 0 for it; and otherwise the number that,
\* multiplied by the rate of the code, gives the amount.
C17_toUSDAgreesWithReference ==
    (fn = "toUSD" /\ out # <<>>) =>
        LET rates == args.fxRates
        IN  IF args.currency = "USD" THEN out[1] = args.amount
            ELSE IF args.currency \notin DOMAIN rates THEN out[1] = args.amount
            ELSE IF rates[args.currency] \in {Null, 0} THEN out[1] = args.amount
            ELSE out[1] * rates[args.currency] = args.amount

\* a call with code "USD" and a table that holds a rate of 2 for USD and a
\* rate of 0 for EUR returned the amount
C17_Witness ==
    /\ fn = "toUSD"
    /\ out # <<>>
    /\ args.currency = "USD"
    /\ args.amount = 300
    /\ DOMAIN args.fxRates = CurrencyCodes
    /\ args.fxRates["USD"] = 2
    /\ args.fxRates["EUR"] = 0
    /\ out[1] = 300

\* the pages of a screener from page first up to page last, end to end
RECURSIVE PagesUpTo(_, _, _)
PagesUpTo(server, first, last) ==
    IF first > last THEN <<>>
    ELSE ServerPage(server, first) \o PagesUpTo(server, first + 1, last)

\* C19: fetchGlobalStocks requests the pages 0, 1, 2, ... in order and stops
\* at the first page that is empty or shorter than the page limit; it throws
\* exactly when these pages hold no symbol, and otherwise returns these
\* pages end to end, the last one included, followed by the supplemental
\* symbols that are not among them, in the order of the supplemental list.
C19_UniverseIsScreenerThenSupplemental ==
    (fn = "fetchGlobalStocks" /\ out # <<>>) =>
        LET stocks == out[1]
            n == Len(stocks.requests)
            screener == PagesUpTo(args.server, 0, n - 1)
            rest == SubSeq(stocks.allSymbols, Len(screener) + 1,
                           Len(stocks.allSymbols))
        IN  /\ n >= 1
            /\ \A k \in 1..n : stocks.requests[k] = k - 1
            /\ Len(ServerPage(args.server, n - 1)) < PageLimit
            /\ \A k \in 0..(n - 2) : Len(ServerPage(args.server, k)) = PageLimit
            /\ stocks.threw <=> screener = <<>>
            /\ ~stocks.threw =>
                  /\ SubSeq(stocks.allSymbols, 1, Len(screener)) = screener
                  /\ rest = SelectSeq(SUPPLEMENTAL_SYMBOLS,
                                      LAMBDA s : \A k \in DOMAIN screener :
                                                     screener[k] # s)

\* a call that requested a full page and a short one, took the symbols of
\* both and appended the supplemental symbol neither had
C19_Witness ==
    /\ fn = "fetchGlobalStocks"
    /\ out # <<>>
    /\ args.server = << <<"AAA", "AAA">>, <<"AAA">>, <<"TCEHY">> >>
    /\ out[1].requests = <<0, 1>>
    /\ out[1].allSymbols = <<"AAA", "AAA", "AAA", "TCEHY">>

\* the rank of every symbol of a record set
RanksBySymbol(cs) ==
    [s \in {cs[k].symbol : k \in DOMAIN cs} |-> cs[PositionOf(cs, s)].rank]

\* C21: ranking is idempotent: a record set ranked by the sort-and-number
\* step of the quotes update or of the full run and of new_symbols, with
\* equal, zero or null market caps among its records, gets the same rank for
\* every record when either step is applied to it again.
C21_RankingIsIdempotent ==
    (fn \in {"RankInPlace", "RankAndReorder"} /\ out # <<>>) =>
        /\ RanksBySymbol(RankInPlace(out[1])) = RanksBySymbol(out[1])
        /\ RanksBySymbol(RankAndReorder(out[1])) = RanksBySymbol(out[1])
        /\ fn = "RankInPlace" => RankInPlace(out[1]) = out[1]
        /\ fn = "RankAndReorder" => RankAndReorder(out[1]) = out[1]

\* three records, two with the same market cap and one with a null market
\* cap, were ranked 1, 2, 3 in the order of the list
C21_Witness ==
    /\ fn = "RankAndReorder"
    /\ out # <<>>
    /\ Len(out[1]) = 3
    /\ out[1][1].market_cap = 1000000000
    /\ out[1][2].market_cap = 1000000000
    /\ out[1][3].market_cap = Null
    /\ \A k \in 1..3 : out[1][k].rank = k
    /\ out[1][1].symbol = args.companies[2].symbol
    /\ out[1][2].symbol = args.companies[3].symbol

\* the lists that hold the estimates of data in another order
Reorderings(data) ==
    {[k \in DOMAIN data |-> data[perm[k]]] :
        perm \in {q \in [DOMAIN data -> DOMAIN data] :
                     \A j, k \in DOMAIN data : q[j] = q[k] => j = k}}

\* the estimates of data whose date is at least three months away
Qualifying(data, threeMonthsFromNow) ==
    {k \in DOMAIN data : DateTime(data[k].date) >= threeMonthsFromNow}

\* the selected estimate has the earliest qualifying date, or the latest
\* date of all when none qualifies; an empty list gives null
SelectsForwardDate(data, threeMonthsFromNow, estimate) ==
    LET qualifying == Qualifying(data, threeMonthsFromNow)
    IN  IF data = <<>> THEN estimate = NoEstimate
        ELSE /\ \E k \in DOMAIN data : data[k] = estimate
             /\ IF qualifying # {}
                THEN /\ DateTime(estimate.date) >= threeMonthsFromNow
                     /\ \A k \in qualifying :
                           DateTime(estimate.date) <= DateTime(data[k].date)
                ELSE \A k \in DOMAIN data :
                           DateTime(estimate.date) >= DateTime(data[k].date)

\* forwardPE is set only for a positive EPS, and then to price / EPS
ForwardPEOnlyForPositiveEPS(estimate, price, forwardPE) ==
    /\ forwardPE # Null =>
          /\ estimate # NoEstimate
          /\ estimate.epsAvg > 0
          /\ forwardPE * estimate.epsAvg = price
    /\ (estimate # NoEstimate /\ estimate.epsAvg > 0 /\ price > 0) =>
          forwardPE # Null

DatesDistinct(data) ==
    \A j, k \in DOMAIN data : data[j].date = data[k].date => j = k

\* C27 as stated: the estimate selected from a non-empty list is the one of
\* the earliest date at least three months away, or of the latest date when
\* none is; it does not depend on the order of the list; forwardPE is set,
\* to price / forwardEPS, only when its EPS is positive.
C27_SelectionIgnoresOrder ==
    (fn = "fetchAnalystEstimates" /\ out # <<>>) =>
        /\ SelectsForwardDate(args.data, args.threeMonthsFromNow, out[1].estimate)
        /\ ForwardPEOnlyForPositiveEPS(out[1].estimate, args.price, out[1].forwardPE)
        /\ \A other \in Reorderings(args.data) :
              SelectEstimate(other, args.threeMonthsFromNow) = out[1].estimate

\* C27, amended: the date of the selected estimate does not depend on the
\* order of the list, and the estimate itself does not when no two
\* estimates of the list have the same date; the rest as stated.
C27_SelectedDateIgnoresOrder ==
    (fn = "fetchAnalystEstimates" /\ out # <<>>) =>
        /\ SelectsForwardDate(args.data, args.threeMonthsFromNow, out[1].estimate)
        /\ ForwardPEOnlyForPositiveEPS(out[1].estimate, args.price, out[1].forwardPE)
        /\ \A other \in Reorderings(args.data) :
              LET estimate == SelectEstimate(other, args.threeMonthsFromNow)
              IN  /\ estimate.date = out[1].estimate.date
                  /\ DatesDistinct(args.data) => estimate = out[1].estimate

\* three estimates listed latest first, the nearest fiscal year end less
\* than three months away: the middle one is selected and gives forwardPE 2
C27_Witness ==
    /\ fn = "fetchAnalystEstimates"
    /\ out # <<>>
    /\ args.data = <<[date |-> "2028-12-31", epsAvg |-> 600],
                     [date |-> "2027-12-31", epsAvg |-> 300],
                     [date |-> "2026-12-31", epsAvg |-> -300]>>
    /\ args.threeMonthsFromNow = 5
    /\ args.price = 600
    /\ out[1].estimate = [date |-> "2027-12-31", epsAvg |-> 300]
    /\ out[1].forwardPE = 2


=============================================================================
